---- MODULE Spec2Model ----
(***************************************************************************)
(* Verification model of the DSA search engine (C++ backend).              *)
(*                                                                         *)
(* The module holds several state machines over one set of variables; each *)
(* specification initialises the variables of the other machines to fixed  *)
(* values and leaves them unchanged.                                       *)
(*                                                                         *)
(*   Spec       the online ingestion pipeline: /upload handler threads,    *)
(*              PDFProcessingPool workers, BatchIndexWriter queue, writer  *)
(*              thread and flush_now (main.cpp, PDFProcessingPool.cpp,     *)
(*              BatchIndexWriter.cpp)                                      *)
(*   SpecIndex  the persisted files and the coordinator's in-memory        *)
(*              structures under flush, merge, build, reload and search    *)
(*   SpecRank   the ordering and truncation of a result list               *)
(*   SpecTrie   the lexicon's prefix tree and autocomplete                 *)
(*   SpecReload a reload and a search running beside a batch flush         *)
(*   SpecLex    the lexicon: build, save, load, lookups, online extension, *)
(*              and the prefix tree of the running engine                  *)
(*   SpecShutdown, SpecShutdownFair                                        *)
(*              the worker loops and the destructors of the pool and of    *)
(*              the batch writer                                           *)
(*   SpecStart  the start of the engine on missing or corrupt files        *)
(*   SpecCache  concurrent searches in the barrel cache                    *)
(*   SpecWriter, SpecWriterFair                                            *)
(*              the batch writer: enqueue, flush_now, writer thread,       *)
(*              destructor                                                 *)
(*   SpecStats  the document statistics: cache file, startup load, online  *)
(*              appends to the forward index                               *)
(*   SpecLocks  the mutexes of the pool and of the batch writer and the    *)
(*              threads that take them                                     *)
(***************************************************************************)
EXTENDS Integers, Sequences, FiniteSets, TLC

(***************************************************************************)
(* Bounds of the model.                                                    *)
(***************************************************************************)
\* number of concurrent /upload request threads
NumHandlers == 2
\* number of PDFProcessingPool worker threads
NumWorkers == 2
\* total number of files submitted over a run
MaxTasks == 2
\* files of one upload request
MaxFiles == 2
\* batch_size_ of the BatchIndexWriter (constructor parameter, main.cpp passes 10)
BatchSize == 2

\* number of distinct words the extractor can emit (words are 1..MaxWord)
MaxWord == 2
\* tokens of one uploaded document
MaxTokens == 3
\* query words of one search
MaxQuery == 3
\* documents uploaded over a run of the index machine
MaxDocs == 1
\* top-k limit of SearchService::search (50 in the source), scaled down
TopK == 2
\* candidates of one search in the ranking machine
MaxCand == 3
\* largest score of a candidate, in steps of 0.0000005
MaxScore == 3
\* largest citation count of a candidate
MaxCites == 1
\* longest term and longest prefix of the prefix-tree machine
MaxLen == 2
\* terms of a lexicon in the prefix-tree machine
MaxLex == 2
\* largest k of an autocomplete call
MaxK == 2
\* batches flushed in the flush and reload machine
MaxBatches == 2
\* lines of the corpus a lexicon is built from
MaxLexDocs == 2
\* search threads of the barrel cache machine
NumSearchers == 2
\* barrel ids the queries of the barrel cache machine ask for: 0..MaxBarrel-1
MaxBarrel == 32
\* evictions of the barrel cache after which no further lookup begins
MaxEvictions == 1
\* request threads calling flush_now in the batch writer machine
NumCallers == 2
\* documents enqueued over a run of the batch writer machine
MaxEnqueued == 3
\* shards in the barrel cache when the barrel cache machine starts
WarmBarrels == 28
\* forward index lines the doc-stats machine appends
MaxStatDocs == 3

(***************************************************************************)
(* Program constants.                                                      *)
(***************************************************************************)
\* number of barrels: word_id % 100, InvertedIndexBuilder(100)
NumBarrels == 100
\* get_barrel: barrel_cache_.size() >= 30 triggers the eviction
CacheLimit == 30
\* get_barrel: std::advance(erase_it, 15)
EvictCount == 15
\* search: final_score += 100.0
ProximityBonus == 100
\* Lexicon::min_frequency_ and max_frequency_percentile_ (lexicon.hpp)
min_frequency_ == 2
max_frequency_percentile_ == 99
\* <climits>
INT_MAX == 2147483647

Handlers == 1..NumHandlers
Workers == (NumHandlers + 1)..(NumHandlers + NumWorkers)
NoOwner == 0

(***************************************************************************)
(* State of the ingestion pipeline (Spec).                                 *)
(***************************************************************************)
VARIABLES
    metaIds,        \* doc ids recorded in data/processed/document_metadata.json
    tasks,          \* every Task submitted so far: [doc_id, h]; a task's id is its index
    future,         \* per task: state of Task::result ("pending", "ready", "failed")
    task_queue_,    \* PDFProcessingPool::task_queue_ (task ids, FIFO)
    wst,            \* per worker: position in worker_thread / process_pdf
    wtask,          \* per worker: the task it holds (0 = none)
    queue_,         \* BatchIndexWriter::queue_ (task ids in enqueue order)
    flush_mutex_,   \* owner of BatchIndexWriter::flush_mutex_
    elapsed,        \* now - last_flush_time_ >= flush_interval_
    wpc,            \* writer thread position
    wbatch,         \* writer thread's local batch
    hpc,            \* per handler: position in the /upload lambda
    hnext,          \* per handler: next_doc_id
    hfiles,         \* per handler: files of the request not yet submitted
    hfutures,       \* per handler: task ids of its futures vector
    hbatch,         \* per handler: flush_now's local batch
    hcalled,        \* per handler: tasks enqueued when it called flush_now
    enqueued,       \* tasks ever pushed to queue_
    written,        \* tasks whose batch update_indices completed
    failedFlush,    \* tasks whose batch update_indices threw
    visible,        \* tasks loaded by the coordinator's last reload
    assignLog,      \* doc ids in the order the handlers assigned them
    tempFiles       \* doc ids d whose data/temp_json/temp_<d>.json exists

pipeVars == << metaIds, tasks, future, task_queue_, wst, wtask, queue_, flush_mutex_, elapsed, wpc, wbatch, hpc, hnext,
               hfiles, hfutures, hbatch, hcalled, enqueued, written,
               failedFlush, visible, assignLog, tempFiles >>

(***************************************************************************)
(* State of the index machine (SpecIndex).  Words are 1..MaxWord, term ids *)
(* are 0-based positions in the lexicon, a posting is a record             *)
(* [doc_id, frequency, positions], a posting map is a function from term   *)
(* ids to sequences of postings.  A missing file and an empty one are the  *)
(* same value.                                                             *)
(***************************************************************************)
VARIABLES
    lexFile,            \* data/processed/lexicon.json: index_to_word
    fwdFile,            \* data/processed/forward_index.jsonl: lines [doc_id, words]
    deltaFile,          \* data/processed/barrels/inverted_delta.json
    barrelFiles,        \* barrels/inverted_barrel_<b>.json, for the barrels that exist
    metaFile,           \* document_metadata.json: doc ids (uploads: year 2024, 0 citations)
    urlFile,            \* docid_to_url.json: doc ids
    corpusFile,         \* test.jsonl: doc id and body tokens of the appended records
    statsBin,           \* doc_stats.bin: doc id -> doc_length
    lexicon_,           \* main's Lexicon, shared by the pool and the batch writer
    metadata_,          \* main's DocumentMetadata, used by the batch writer
    url_mapper_,        \* main's DocURLMapper, used by the batch writer
    lexicon_trie_,      \* SearchService::lexicon_trie_ (its term list)
    delta_index_,       \* SearchService::delta_index_
    barrel_cache_,      \* SearchService::barrel_cache_
    document_metadata_, \* SearchService::document_metadata_
    doc_url_mapper,     \* SearchService::doc_url_mapper
    doc_stats_cache_,   \* SearchService::doc_stats_cache_: doc id -> doc_length
    lastOp,             \* the operation that produced this state
    lastFail,           \* the I/O step that failed, when the last operation was a flush
    nUploads,           \* number of upload requests so far
    lastQuery,          \* the query, when the last operation was a search
    lastResult          \* the result list, when the last operation was a search

indexVars == << lexFile, fwdFile, deltaFile, barrelFiles, metaFile, urlFile,
                corpusFile, statsBin, lexicon_, metadata_, url_mapper_,
                lexicon_trie_, delta_index_, barrel_cache_,
                document_metadata_, doc_url_mapper, doc_stats_cache_, lastOp,
                lastFail, nUploads, lastQuery, lastResult >>

(***************************************************************************)
(* State of the ranking machine: the last stage of SearchService::search.  *)
(***************************************************************************)
VARIABLES
    final_results,      \* the candidates that passed the AND filter, before the sort
    ranked,             \* the list search returns
    rankOp              \* "collect" while candidates are gathered, "sorted" after the sort

rankVars == << final_results, ranked, rankOp >>

(***************************************************************************)
(* State of the prefix-tree machine: LexiconWithTrie.                      *)
(***************************************************************************)
VARIABLES
    lexWords,           \* Lexicon: the word list, index = word id
    trie_,              \* Trie: path from the root -> [is_end_of_word, word]
    trieOp,             \* "new", "load", or "autocomplete" while a call's result is held
    acPrefix,           \* prefix of the last autocomplete call
    acK,                \* k of the last autocomplete call
    acResult            \* what the last autocomplete call returned

trieVars == << lexWords, trie_, trieOp, acPrefix, acK, acResult >>

(***************************************************************************)
(* State of the flush and reload machine (SpecReload).                     *)
(***************************************************************************)
VARIABLES
    diskDelta,      \* barrels/inverted_delta.json: term id -> doc ids of its entries
    diskMeta,       \* document_metadata.json: doc ids
    diskUrl,        \* docid_to_url.json: doc ids
    upc,            \* position of the flushing thread in update_indices
    engDelta,       \* SearchService::delta_index_ (term id -> doc ids)
    engMeta,        \* SearchService::document_metadata_ (doc ids)
    rpc,            \* position of the reloading handler
    rj,             \* load_delta_index's parsed json j
    preDelta,       \* delta_index_ when the reload in progress began
    sobs,           \* the list the last search read for its term
    spre,           \* that term's list before the reload the search ran in
    spost           \* that term's list as that reload loads it

reloadVars == << diskDelta, diskMeta, diskUrl, upc, engDelta, engMeta, rpc,
                 rj, preDelta, sobs, spre, spost >>

(***************************************************************************)
(* State of the lexicon machine (SpecLex).  A word is the sequence of its  *)
(* character codes; a lexicon value is a record [word_to_index,            *)
(* index_to_word].                                                         *)
(***************************************************************************)
VARIABLES
    word_to_index_,     \* Lexicon::word_to_index_: word -> id
    index_to_word_,     \* Lexicon::index_to_word_: the words, position = id
    lexiconJson,        \* data/processed/lexicon.json: << >> or << the saved lexicon >>
    lexOp,              \* "new", or the last completed operation: "build", "load", "extend"
    xpc,                \* position of the batch writer in the lexicon extension
    xtokens,            \* tokens of the batch not yet looked at by the extension
    xpre,               \* the lexicon when the extension in progress began
    xpost,              \* the lexicon that extension ends with
    lkSeen,             \* word_to_index_ as the last lookup found it
    lkPre,              \* word_to_index_ before the extension that lookup ran in
    lkPost,             \* word_to_index_ after the extension that lookup ran in
    lkResult,           \* the id that lookup returned
    engineTrie          \* SearchService::lexicon_trie_: the prefix tree of the running engine

lexVars == << word_to_index_, index_to_word_, lexiconJson, lexOp, xpc, xtokens,
              xpre, xpost, lkSeen, lkPre, lkPost, lkResult, engineTrie >>

(***************************************************************************)
(* State of the shutdown machine (SpecShutdown, SpecShutdownFair).         *)
(***************************************************************************)
VARIABLES
    shutdown_,      \* PDFProcessingPool::shutdown_
    poolMutex,      \* owner of PDFProcessingPool::queue_mutex_ (NoOwner when free)
    poolQueue,      \* PDFProcessingPool::task_queue_ (task ids, FIFO)
    promise,        \* per submitted task: state of Task::result
    pw,             \* per pool worker: position in worker_thread
    pwTask,         \* per pool worker: the task it has popped (0 = none)
    waiters,        \* pool workers blocked in queue_cv_.wait
    dpc,            \* position of main in the two destructors
    writerShutdown, \* BatchIndexWriter::shutdown_
    wth             \* position of the writer thread in writer_thread

shutdownVars == << shutdown_, poolMutex, poolQueue, promise, pw, pwTask,
                   waiters, dpc, writerShutdown, wth >>

(***************************************************************************)
(* State of the startup machine (SpecStart).  A JSON file is "ok",         *)
(* "missing", "garbled" (not JSON: the parser throws parse_error) or       *)
(* "mistyped" (JSON whose values have another type than the reader asks    *)
(* for: get<T>() throws type_error).                                       *)
(***************************************************************************)
VARIABLES
    sfLexicon,      \* data/processed/lexicon.json
    sfMetadata,     \* data/processed/document_metadata.json
    sfUrlMap,       \* data/processed/docid_to_url.json
    sfBarrel,       \* the barrel file of the query term
    sfDelta,        \* data/processed/barrels/inverted_delta.json
    sfDocStats,     \* data/processed/doc_stats.bin
    engine,         \* "off", "running", or "terminated" by an exception that left main
    lexLoaded,      \* lexicon_trie_ holds the terms of the lexicon file
    deltaLoaded,    \* delta_index_ holds entries of the delta file
    barrelCached,   \* barrel_cache_ holds the barrel of the query term
    callOutcome     \* "none", or how the last search or autocomplete call ended

startVars == << sfLexicon, sfMetadata, sfUrlMap, sfBarrel, sfDelta, sfDocStats,
                engine, lexLoaded, deltaLoaded, barrelCached, callOutcome >>

(***************************************************************************)
(* State of the barrel cache machine (SpecCache): concurrent searches in   *)
(* SearchService::get_barrel.  The cache is the set of its keys; a shard   *)
(* in the cache holds what its file holds.                                 *)
(***************************************************************************)
VARIABLES
    cachedBarrels,  \* the keys of SearchService::barrel_cache_
    spc,            \* position of each search thread in get_barrel and the entry loop
    sbarrel,        \* barrel_id of the lookup each thread is in, -1 when idle
    sresult,        \* how each thread's last read of a shard ended
    evictions,      \* number of evictions so far
    loadOrder       \* the cached barrel ids in the order of their loading, oldest first

cacheVars == << cachedBarrels, spc, sbarrel, sresult, evictions, loadOrder >>

(***************************************************************************)
(* State of the batch writer machine (SpecWriter, SpecWriterFair): one     *)
(* BatchIndexWriter with its writer thread, the pool threads that enqueue, *)
(* the request threads that call flush_now, and the destructor.  The       *)
(* documents are 1, 2, ... in the order of their enqueue_document calls.   *)
(***************************************************************************)
VARIABLES
    bqueue,         \* BatchIndexWriter::queue_
    benq,           \* number of enqueue_document calls so far
    bmutex,         \* owner of flush_mutex_: NoOwner, a flush_now caller, or WriterId
    bdue,           \* now - last_flush_time_ >= flush_interval_
    bstop,          \* BatchIndexWriter::shutdown_
    bpc,            \* position of the writer thread
    bbatch,         \* the writer thread's local batch
    fpc,            \* per request thread: position in flush_now
    fbatch,         \* per request thread: flush_now's local batch
    bdtor,          \* position of the destructor
    bhanded,        \* documents passed to a flush_batch call so far
    bstats          \* stats_: documents_indexed, batches_flushed; and the update_indices runs

writerVars == << bqueue, benq, bmutex, bdue, bstop, bpc, bbatch, fpc, fbatch,
                 bdtor, bhanded, bstats >>

(***************************************************************************)
(* State of the doc-stats machine (SpecStats): the forward index, the      *)
(* binary doc-stats cache file and the cache of the engine, over restarts  *)
(* of the server.                                                          *)
(***************************************************************************)
VARIABLES
    statsForward,   \* data/processed/forward_index.jsonl: lines [doc_id, words]
    statsBinFile,   \* data/processed/doc_stats.bin: doc id -> doc_length
    statsCache      \* << >> while the server is down, else << doc_stats_cache_ >>

statsVars == << statsForward, statsBinFile, statsCache >>

(***************************************************************************)
(* State of the locking machine (SpecLocks): the mutexes of the batch      *)
(* writer and of the processing pool, and the threads that take them.      *)
(***************************************************************************)
VARIABLES
    lockOwner,      \* per mutex: the thread that holds it, NoOwner when free
    lockPc,         \* per thread: its position in the function it runs
    lockLoad        \* [tasks: size of the pool's task_queue_, docs: size of the
                    \*  batch writer's queue_, submitted: submit_pdf calls so far]

lockVars == << lockOwner, lockPc, lockLoad >>

vars == << pipeVars,
           indexVars,
           rankVars,
           trieVars,
           reloadVars,
           lexVars,
           shutdownVars,
           startVars,
           cacheVars,
           writerVars,
           statsVars,
           lockVars >>

(***************************************************************************)
(* Helpers.                                                                *)
(***************************************************************************)
SeqToSet(s) == { s[i] : i \in 1..Len(s) }

SetMax(S) == CHOOSE x \in S : \A y \in S : y <= x

Min(a, b) == IF a < b THEN a ELSE b

\* main.cpp 254-268: one past the highest doc id key of the metadata file
NextDocId(ids) == IF ids = {} THEN 0 ELSE SetMax(ids) + 1

DocIdsOf(ts) == { tasks[t].doc_id : t \in ts }

(***************************************************************************)
(* Initial state of the pipeline: empty queues, threads at their loops.    *)
(***************************************************************************)
PipeInit ==
    /\ metaIds = {}
    /\ tasks = << >>
    /\ future = << >>
    /\ task_queue_ = << >>
    /\ wst = [w \in Workers |-> "idle"]
    /\ wtask = [w \in Workers |-> 0]
    /\ queue_ = << >>
    /\ flush_mutex_ = NoOwner
    /\ elapsed = FALSE
    /\ wpc = "top"
    /\ wbatch = << >>
    /\ hpc = [h \in Handlers |-> "idle"]
    /\ hnext = [h \in Handlers |-> 0]
    /\ hfiles = [h \in Handlers |-> 0]
    /\ hfutures = [h \in Handlers |-> << >>]
    /\ hbatch = [h \in Handlers |-> << >>]
    /\ hcalled = [h \in Handlers |-> {}]
    /\ enqueued = {}
    /\ written = {}
    /\ failedFlush = {}
    /\ visible = {}
    /\ assignLog = << >>
    /\ tempFiles = {}

(***************************************************************************)
(* /upload handler (main.cpp 227-404).                                     *)
(***************************************************************************)
\* main.cpp 254-278: read the metadata file, derive next_doc_id, get the files.
\* The request threads are interchangeable: the requests of several files
\* are given to the first one.
UploadStart(h) ==
    /\ hpc[h] = "idle"
    /\ \E n \in 1..(IF h = 1 THEN MaxFiles ELSE 1) :
          /\ Len(tasks) + n <= MaxTasks
          /\ hfiles' = [hfiles EXCEPT ![h] = n]
    /\ hnext' = [hnext EXCEPT ![h] = NextDocId(metaIds)]
    /\ hfutures' = [hfutures EXCEPT ![h] = << >>]
    /\ hcalled' = [hcalled EXCEPT ![h] = {}]
    /\ hpc' = [hpc EXCEPT ![h] = "submit"]
    /\ UNCHANGED << tempFiles, metaIds, tasks, future, task_queue_, wst, wtask, queue_, flush_mutex_, elapsed, wpc, wbatch, hbatch,
                    enqueued, written, failedFlush, visible, assignLog >>

\* main.cpp 280-309 with PDFProcessingPool::submit_pdf (37-58): one file of the loop
UploadSubmit(h) ==
    /\ hpc[h] = "submit"
    /\ hfiles[h] > 0
    /\ tasks' = Append(tasks, [doc_id |-> hnext[h], h |-> h])
    /\ future' = Append(future, "pending")
    /\ task_queue_' = Append(task_queue_, Len(tasks) + 1)
    /\ hfutures' = [hfutures EXCEPT ![h] = Append(@, Len(tasks) + 1)]
    /\ assignLog' = Append(assignLog, hnext[h])
    /\ hnext' = [hnext EXCEPT ![h] = @ + 1]
    /\ hfiles' = [hfiles EXCEPT ![h] = @ - 1]
    /\ UNCHANGED << tempFiles, metaIds, wst, wtask, queue_, flush_mutex_,
                    elapsed, wpc, wbatch, hpc, hbatch, hcalled, enqueued,
                    written, failedFlush, visible >>

\* main.cpp 319-347: futures[i].wait() for every future, then the call of
\* flush_now (uploaded_count > 0 because wait() never throws)
UploadWait(h) ==
    /\ hpc[h] = "submit"
    /\ hfiles[h] = 0
    /\ \A i \in 1..Len(hfutures[h]) : future[hfutures[h][i]] # "pending"
    /\ hcalled' = [hcalled EXCEPT ![h] = enqueued]
    /\ hpc' = [hpc EXCEPT ![h] = "flush_lock"]
    /\ UNCHANGED << tempFiles, metaIds, tasks, future, task_queue_, wst, wtask, queue_, flush_mutex_, elapsed, wpc, wbatch, hnext,
                    hfiles, hfutures, hbatch, enqueued, written, failedFlush,
                    visible, assignLog >>

(***************************************************************************)
(* BatchIndexWriter (BatchIndexWriter.cpp).  Every critical section of     *)
(* queue_mutex_ is one atomic action; flush_mutex_ is held across steps.   *)
(***************************************************************************)
\* flush_batch (131-167): update_indices either completes (documents written,
\* last_flush_time_ reset) or throws; the exception is caught and logged
flush_batch(batch, ok) ==
    IF ok
    THEN /\ written' = written \cup SeqToSet(batch)
         /\ metaIds' = metaIds \cup DocIdsOf(SeqToSet(batch))
         /\ elapsed' = FALSE
         /\ UNCHANGED failedFlush
    ELSE /\ failedFlush' = failedFlush \cup SeqToSet(batch)
         /\ UNCHANGED << written, metaIds, elapsed >>

\* flush_now 63: lock_guard flush_lock(flush_mutex_)
FlushNowLock(h) ==
    /\ hpc[h] = "flush_lock"
    /\ flush_mutex_ = NoOwner
    /\ flush_mutex_' = h
    /\ hpc' = [hpc EXCEPT ![h] = "queue_lock"]
    /\ UNCHANGED << tempFiles, metaIds, tasks, future, task_queue_, wst, wtask, queue_, elapsed, wpc, wbatch, hnext, hfiles,
                    hfutures, hbatch, hcalled, enqueued, written, failedFlush,
                    visible, assignLog >>

\* flush_now 65-79: under return on an empty queue, else swap the
\* whole queue into the local batch
FlushNowTake(h) ==
    /\ hpc[h] = "queue_lock"
    /\ IF queue_ = << >>
       THEN /\ flush_mutex_' = NoOwner
            /\ hpc' = [hpc EXCEPT ![h] = "reload"]
            /\ UNCHANGED << queue_, hbatch >>
       ELSE /\ hbatch' = [hbatch EXCEPT ![h] = queue_]
            /\ queue_' = << >>
            /\ hpc' = [hpc EXCEPT ![h] = "flush_batch"]
            /\ UNCHANGED flush_mutex_
    /\ UNCHANGED << tempFiles, metaIds, tasks, future, task_queue_, wst, wtask, elapsed, wpc, wbatch, hnext, hfiles,
                    hfutures, hcalled, enqueued, written, failedFlush,
                    visible, assignLog >>

\* flush_now 82-84: flush_batch(batch), then the lock_guard releases flush_mutex_
FlushNowFlush(h) ==
    /\ hpc[h] = "flush_batch"
    /\ \E ok \in BOOLEAN : flush_batch(hbatch[h], ok)
    /\ hbatch' = [hbatch EXCEPT ![h] = << >>]
    /\ flush_mutex_' = NoOwner
    /\ hpc' = [hpc EXCEPT ![h] = "reload"]
    /\ UNCHANGED << tempFiles, tasks, future, task_queue_, wst, wtask, queue_, wpc, wbatch, hnext, hfiles, hfutures,
                    hcalled, enqueued, visible, assignLog >>

\* main.cpp 351-355 with SearchService::reload_delta_index / reload_metadata:
\* the coordinator loads what the files hold now; the response follows
UploadReload(h) ==
    /\ hpc[h] = "reload"
    /\ visible' = written
    /\ hpc' = [hpc EXCEPT ![h] = "done"]
    /\ UNCHANGED << tempFiles, metaIds, tasks, future, task_queue_, wst, wtask, queue_, flush_mutex_, elapsed, wpc, wbatch, hnext,
                    hfiles, hfutures, hbatch, hcalled, enqueued, written,
                    failedFlush, assignLog >>

\* main.cpp 303-307 and 319-335: uploaded_count is incremented for every
\* submitted file; the catch block that would decrement it is never entered,
\* because futures[i].wait() does not rethrow what the promise holds
uploaded_count(h) == Len(hfutures[h])

\* main.cpp 283-293 and 319-335: failed_count counts the files that are no
\* PDF or cannot be saved (none of the submitted ones); the catch block that
\* would count a failed task is never entered
failed_count(h) == Len(hfutures[h]) - uploaded_count(h)

\* main.cpp 371-382: the response lists the first uploaded_count doc ids of
\* new_doc_ids, which holds the doc id of every submitted file
newDocIds(h) ==
    [i \in 1..Min(Len(hfutures[h]), uploaded_count(h)) |-> tasks[hfutures[h][i]].doc_id]

\* the request thread serves the next /upload request
UploadDone(h) ==
    /\ hpc[h] = "done"
    /\ Len(tasks) < MaxTasks
    /\ hpc' = [hpc EXCEPT ![h] = "idle"]
    /\ UNCHANGED << tempFiles, metaIds, tasks, future, task_queue_, wst, wtask, queue_, flush_mutex_, elapsed, wpc, wbatch, hnext,
                    hfiles, hfutures, hbatch, hcalled, enqueued, written,
                    failedFlush, visible, assignLog >>

\* writer_thread 93-121: lock wait_for (predicate or timeout),
\* skip an empty queue, extract min(size, batch_size_) documents when the queue
\* is full enough or the interval has elapsed, unlock
WriterTake ==
    /\ wpc = "top"
    /\ IF queue_ # << >> /\ (Len(queue_) >= BatchSize \/ elapsed)
       THEN LET take == Min(Len(queue_), BatchSize) IN
            /\ wbatch' = SubSeq(queue_, 1, take)
            /\ queue_' = SubSeq(queue_, take + 1, Len(queue_))
            /\ wpc' = "flush_lock"
       ELSE UNCHANGED << wbatch, queue_, wpc >>
    /\ UNCHANGED << tempFiles, metaIds, tasks, future, task_queue_, wst, wtask, flush_mutex_, elapsed, hpc, hnext, hfiles,
                    hfutures, hbatch, hcalled, enqueued, written, failedFlush,
                    visible, assignLog >>

\* writer_thread 123-125: lock_guard flush_lock(flush_mutex_)
WriterFlushLock ==
    /\ wpc = "flush_lock"
    /\ flush_mutex_ = NoOwner
    /\ flush_mutex_' = -1
    /\ wpc' = "flush_batch"
    /\ UNCHANGED << tempFiles, metaIds, tasks, future, task_queue_, wst, wtask, queue_, elapsed, wbatch, hpc, hnext, hfiles,
                    hfutures, hbatch, hcalled, enqueued, written, failedFlush,
                    visible, assignLog >>

\* writer_thread 126-127: flush_batch(batch), release flush_mutex_
WriterFlush ==
    /\ wpc = "flush_batch"
    /\ \E ok \in BOOLEAN : flush_batch(wbatch, ok)
    /\ wbatch' = << >>
    /\ flush_mutex_' = NoOwner
    /\ wpc' = "top"
    /\ UNCHANGED << tempFiles, tasks, future, task_queue_, wst, wtask, queue_, hpc, hnext, hfiles, hfutures, hbatch,
                    hcalled, enqueued, visible, assignLog >>

\* the steady clock passes last_flush_time_ + flush_interval_
Tick ==
    /\ ~elapsed
    /\ elapsed' = TRUE
    /\ UNCHANGED << tempFiles, metaIds, tasks, future, task_queue_, wst, wtask, queue_, flush_mutex_, wpc, wbatch, hpc, hnext,
                    hfiles, hfutures, hbatch, hcalled, enqueued, written,
                    failedFlush, visible, assignLog >>

(***************************************************************************)
(* PDFProcessingPool (PDFProcessingPool.cpp).                              *)
(***************************************************************************)
\* worker_thread 67-85: take the front task under the pool's queue mutex
WorkerTake(w) ==
    /\ wst[w] = "idle"
    /\ task_queue_ # << >>
    /\ wtask' = [wtask EXCEPT ![w] = Head(task_queue_)]
    /\ task_queue_' = Tail(task_queue_)
    /\ wst' = [wst EXCEPT ![w] = "process"]
    /\ UNCHANGED << tempFiles, metaIds, tasks, future, queue_,
                    flush_mutex_, elapsed, wpc, wbatch, hpc, hnext, hfiles,
                    hfutures, hbatch, hcalled, enqueued, written, failedFlush,
                    visible, assignLog >>

\* call_python_tokenizer 150-179, process_pdf 107-110, worker_thread 87-96:
\* std::system runs the tokenizer on temp_<doc_id>.json; it writes the file
\* and returns 0, or it returns non-zero, the file is removed and the
\* exception is stored in the task's promise
WorkerTokenize(w) ==
    /\ wst[w] = "process"
    /\ \E ok \in BOOLEAN :
          IF ok
          THEN /\ tempFiles' = tempFiles \cup {tasks[wtask[w]].doc_id}
               /\ wst' = [wst EXCEPT ![w] = "read"]
               /\ UNCHANGED << future, wtask >>
          ELSE /\ tempFiles' = tempFiles \ {tasks[wtask[w]].doc_id}
               /\ future' = [future EXCEPT ![wtask[w]] = "failed"]
               /\ wst' = [wst EXCEPT ![w] = "idle"]
               /\ wtask' = [wtask EXCEPT ![w] = 0]
    /\ UNCHANGED << metaIds, tasks, task_queue_, queue_,
                    flush_mutex_, elapsed, wpc, wbatch, hpc, hnext, hfiles,
                    hfutures, hbatch, hcalled, enqueued, written, failedFlush,
                    visible, assignLog >>

\* call_python_tokenizer 181-211, process_pdf 107-110, worker_thread 87-96:
\* open temp_<doc_id>.json; a file that is not there fails the task
\* ("Could not read tokenized output"); otherwise the tokens are read and the
\* file is removed, and a parse error or an empty token list fails the task
WorkerRead(w) ==
    /\ wst[w] = "read"
    /\ tempFiles' = tempFiles \ {tasks[wtask[w]].doc_id}
    /\ IF tasks[wtask[w]].doc_id \notin tempFiles
       THEN /\ future' = [future EXCEPT ![wtask[w]] = "unreadable"]
            /\ wst' = [wst EXCEPT ![w] = "idle"]
            /\ wtask' = [wtask EXCEPT ![w] = 0]
       ELSE \E ok \in BOOLEAN :
               IF ok
               THEN /\ wst' = [wst EXCEPT ![w] = "enqueue"]
                    /\ UNCHANGED << future, wtask >>
               ELSE /\ future' = [future EXCEPT ![wtask[w]] = "failed"]
                    /\ wst' = [wst EXCEPT ![w] = "idle"]
                    /\ wtask' = [wtask EXCEPT ![w] = 0]
    /\ UNCHANGED << metaIds, tasks, task_queue_, queue_,
                    flush_mutex_, elapsed, wpc, wbatch, hpc, hnext, hfiles,
                    hfutures, hbatch, hcalled, enqueued, written, failedFlush,
                    visible, assignLog >>

\* process_pdf without the call of enqueue_document
WorkerSkipEnqueue(w) ==
    /\ wst[w] = "enqueue"
    /\ wst' = [wst EXCEPT ![w] = "set_value"]
    /\ UNCHANGED << tempFiles, metaIds, tasks, future, task_queue_, wtask, queue_,
                    flush_mutex_, elapsed, wpc, wbatch, hpc, hnext, hfiles,
                    hfutures, hbatch, hcalled, enqueued, written, failedFlush,
                    visible, assignLog >>

\* process_pdf 124 with enqueue_document (44-57): push_back under queue_mutex_
WorkerEnqueue(w) ==
    /\ wst[w] = "enqueue"
    /\ queue_' = Append(queue_, wtask[w])
    /\ enqueued' = enqueued \cup {wtask[w]}
    /\ wst' = [wst EXCEPT ![w] = "set_value"]
    /\ UNCHANGED << tempFiles, metaIds, tasks, future, task_queue_, wtask,
                    flush_mutex_, elapsed, wpc, wbatch, hpc, hnext, hfiles,
                    hfutures, hbatch, hcalled, written, failedFlush, visible,
                    assignLog >>

\* process_pdf 132: task.result.set_value(task.doc_id)
WorkerSetValue(w) ==
    /\ wst[w] = "set_value"
    /\ future' = [future EXCEPT ![wtask[w]] = "ready"]
    /\ wst' = [wst EXCEPT ![w] = "idle"]
    /\ wtask' = [wtask EXCEPT ![w] = 0]
    /\ UNCHANGED << tempFiles, metaIds, tasks, task_queue_, queue_,
                    flush_mutex_, elapsed, wpc, wbatch, hpc, hnext, hfiles,
                    hfutures, hbatch, hcalled, enqueued, written, failedFlush,
                    visible, assignLog >>

PipeNext ==
    \/ \E h \in Handlers : UploadStart(h)
    \/ \E h \in Handlers : UploadSubmit(h)
    \/ \E h \in Handlers : UploadWait(h)
    \/ \E h \in Handlers : FlushNowLock(h)
    \/ \E h \in Handlers : FlushNowTake(h)
    \/ \E h \in Handlers : FlushNowFlush(h)
    \/ \E h \in Handlers : UploadReload(h)
    \/ \E h \in Handlers : UploadDone(h)
    \/ WriterTake
    \/ WriterFlushLock
    \/ WriterFlush
    \/ Tick
    \/ \E w \in Workers : WorkerTake(w)
    \/ \E w \in Workers : WorkerTokenize(w)
    \/ \E w \in Workers : WorkerRead(w)
    \/ \E w \in Workers : WorkerEnqueue(w)
    \/ \E w \in Workers : WorkerSetValue(w)

(***************************************************************************)
(* Index machine: pure functions.                                          *)
(***************************************************************************)
Words == 1..MaxWord

EmptyMap == [t \in {} |-> << >>]

\* the persisted files the batch writer maintains
Files == << lexFile, fwdFile, deltaFile, metaFile, urlFile, corpusFile >>

FailPoints == {"none", "forward_open", "delta_open", "delta_write",
               "delta_rename", "meta_save", "url_save"}

\* ascending sequence of a finite set of integers
RECURSIVE SortedSeq(_)
SortedSeq(S) ==
    IF S = {} THEN << >>
    ELSE LET m == CHOOSE x \in S : \A y \in S : x <= y
         IN << m >> \o SortedSeq(S \ {m})

\* Lexicon::get_word_index: the id of a word, -1 when unknown
get_word_index(lex, w) ==
    IF \E i \in 1..Len(lex) : lex[i] = w
    THEN (CHOOSE i \in 1..Len(lex) : lex[i] = w) - 1
    ELSE -1

\* Lexicon::update_from_tokens: unseen tokens get the ids size, size+1, ...
\* in the order of their first occurrence
RECURSIVE update_from_tokens(_, _)
update_from_tokens(lex, tokens) ==
    IF tokens = << >> THEN lex
    ELSE update_from_tokens(
             IF get_word_index(lex, Head(tokens)) = -1
             THEN Append(lex, Head(tokens)) ELSE lex,
             Tail(tokens))

\* PDFProcessingPool::build_doc_stats: term id -> body_positions, for the
\* tokens the lexicon knows; positions count every token, known or not
build_doc_stats(lex, tokens) ==
    LET known == { get_word_index(lex, tokens[i]) : i \in 1..Len(tokens) } \ {-1}
    IN [t \in known |->
           SortedSeq({ i - 1 : i \in { j \in 1..Len(tokens) :
                                        get_word_index(lex, tokens[j]) = t } })]

\* WordStats::get_weighted_frequency with title_frequency = 0: 3*0 + body
WeightedFrequency(positions) == 3 * 0 + Len(positions)

\* update_indices 186-214: the forward index line of a document
ForwardLine(doc_id, stats) == [doc_id |-> doc_id, words |-> stats]

\* doc_length of a forward index line: sum of title and body frequencies
RECURSIVE SumLens(_, _)
SumLens(f, S) ==
    IF S = {} THEN 0
    ELSE LET t == CHOOSE x \in S : TRUE
         IN Len(f[t]) + SumLens(f, S \ {t})

DocLength(line) == SumLens(line.words, DOMAIN line.words)

\* the posting [doc_id, weighted_frequency, title positions then body positions]
Posting(doc_id, positions) ==
    [doc_id |-> doc_id, frequency |-> WeightedFrequency(positions),
     positions |-> positions]

\* update_indices 227-248: push one entry per word of the document at the
\* end of the word's list in the delta
AppendPostings(map, doc_id, stats) ==
    [t \in DOMAIN map \cup DOMAIN stats |->
        (IF t \in DOMAIN map THEN map[t] ELSE << >>) \o
        (IF t \in DOMAIN stats THEN << Posting(doc_id, stats[t]) >> ELSE << >>)]

\* InvertedIndexBuilder::get_barrel_id and search's word_id % 100
get_barrel_id(word_id) == word_id % NumBarrels

\* merge_delta_to_main 206-212: every delta entry is pushed at the end of the
\* word's main list, or the list is created
MergeInto(main, updates) ==
    [t \in DOMAIN main \cup DOMAIN updates |->
        IF t \in DOMAIN updates
        THEN (IF t \in DOMAIN main THEN main[t] \o updates[t] ELSE updates[t])
        ELSE main[t]]

\* the file of barrel b, an empty object when the file does not exist
BarrelFile(files, b) == IF b \in DOMAIN files THEN files[b] ELSE EmptyMap

\* a merge that writes every barrel file anew from the delta lists alone
MergedBarrelsFromDelta(files, delta) ==
    LET affected == { get_barrel_id(t) : t \in DOMAIN delta }
    IN [b \in affected |-> [t \in { u \in DOMAIN delta : get_barrel_id(u) = b } |-> delta[t]]]

\* merge_delta_to_main 189-217: the barrel files after the merge
MergedBarrels(files, delta) ==
    LET affected == { get_barrel_id(t) : t \in DOMAIN delta }
    IN [b \in DOMAIN files \cup affected |->
           IF b \in affected
           THEN MergeInto(BarrelFile(files, b),
                          [t \in { u \in DOMAIN delta : get_barrel_id(u) = b } |-> delta[t]])
           ELSE files[b]]

\* InvertedIndexBuilder::build 36-97: postings of word t over the lines of the
\* forward index, in line order
RECURSIVE PostingsOfWord(_, _)
PostingsOfWord(lines, t) ==
    IF lines = << >> THEN << >>
    ELSE (IF t \in DOMAIN Head(lines).words
          THEN << Posting(Head(lines).doc_id, Head(lines).words[t]) >>
          ELSE << >>) \o PostingsOfWord(Tail(lines), t)

\* InvertedIndexBuilder::build 99-110: only the non-empty barrels are written
BuiltBarrels(files, lines) ==
    LET terms == UNION { DOMAIN lines[i].words : i \in 1..Len(lines) }
        nonEmpty == { get_barrel_id(t) : t \in terms }
    IN [b \in DOMAIN files \cup nonEmpty |->
           IF b \in nonEmpty
           THEN [t \in { u \in terms : get_barrel_id(u) = b } |-> PostingsOfWord(lines, t)]
           ELSE files[b]]

\* build_doc_stats_cache 156-190: doc id -> doc_length, later lines overwrite
StatsFromForward(lines) ==
    [d \in { lines[i].doc_id : i \in 1..Len(lines) } |->
        DocLength(lines[CHOOSE i \in 1..Len(lines) :
                           /\ lines[i].doc_id = d
                           /\ \A j \in 1..Len(lines) : lines[j].doc_id = d => j <= i])]

\* load_document_stats 218-251: the binary cache when it holds documents,
\* else a rebuild from the forward index
LoadedStats(bin, lines) == IF DOMAIN bin # {} THEN bin ELSE StatsFromForward(lines)

(***************************************************************************)
(* RankingScorer (RankingScorer.cpp) in fixed point.  A score is an integer *)
(* number of units of 0.0000005, so that the tolerance 1e-6 of             *)
(* compareResults is 2 units; the scorer computes in thousandths.          *)
(***************************************************************************)
\* score units in one thousandth
MilliUnits == 2000
\* compareResults: std::abs(a.score - b.score) > 1e-6, in score units
ScoreEps == 2

\* calculate_frequency_score: std::log1p(weighted_frequency), in thousandths
Log1pMilli(f) ==
    CASE f <= 0 -> 0
      [] f = 1 -> 693
      [] f = 2 -> 1099
      [] f = 3 -> 1386
      [] f = 4 -> 1609
      [] OTHER -> 1792

\* calculate_position_score 72-113: weight of one position, in thousandths
PositionWeight(pos, doc_length) ==
    IF doc_length <= 0
    THEN (IF pos < 10 THEN (10 - pos) * 100
          ELSE IF pos < 50 THEN (50 - pos) * 10 ELSE 0)
    ELSE IF 10 * pos < doc_length
         THEN 1000 - (10000 * pos) \div doc_length
         ELSE IF 2 * pos < doc_length
              THEN 250 - (500 * pos) \div doc_length
              ELSE 110 - (100 * pos) \div doc_length

RECURSIVE SumWeights(_, _)
SumWeights(positions, doc_length) ==
    IF positions = << >> THEN 0
    ELSE PositionWeight(Head(positions), doc_length)
         + SumWeights(Tail(positions), doc_length)

calculate_position_score(positions, doc_length) ==
    IF positions = << >> THEN 0
    ELSE SumWeights(positions, doc_length) \div Len(positions)

\* calculate_title_boost: 2.0 with a title occurrence, else 1.0
calculate_title_boost(title_frequency) == IF title_frequency > 0 THEN 2000 ELSE 1000

\* calculate_date_boost: clamp(1 + 0.01 * (year - 2000), 0.5, 2.0), in hundredths
calculate_date_boost(year) ==
    IF year <= 0 THEN 100
    ELSE LET b == 100 + (year - 2000)
         IN IF b < 50 THEN 50 ELSE IF b > 200 THEN 200 ELSE b

\* DocumentMetadata::get_publication_year: update_indices stores 2024
get_publication_year(meta, doc_id) == IF doc_id \in meta THEN 2024 ELSE 0

\* DocumentMetadata::get_cited_by_count: update_indices stores 0
get_cited_by_count(meta, doc_id) == 0

\* SearchService::get_document_length
get_document_length(stats, doc_id) == IF doc_id \in DOMAIN stats THEN stats[doc_id] ELSE 0

\* SearchService::get_title_frequency: no forward index line written by
\* update_indices has a title frequency above 0
get_title_frequency(stats, doc_id, word_id) == 0

\* calculate_score 26-64 with the weights 0.4, 0.2, 0.3, 0.1; the metadata
\* score is 0.3 * log1p(citations) with 0 citations
calculate_score(entry, word_id, stats, meta) ==
    LET freq == Log1pMilli(entry.frequency)
        pos == calculate_position_score(entry.positions,
                                        get_document_length(stats, entry.doc_id))
        title == calculate_title_boost(get_title_frequency(stats, entry.doc_id, word_id))
        metaScore == (3 * Log1pMilli(get_cited_by_count(meta, entry.doc_id))) \div 10
        boost == calculate_date_boost(get_publication_year(meta, entry.doc_id))
    IN (((((4 * freq) + (2 * pos) + (3 * title) + (1 * metaScore)) \div 10) * boost) \div 100)
       * MilliUnits

(***************************************************************************)
(* Ordering of a result list (part_022 22-30, 495-502).                    *)
(***************************************************************************)
Abs(x) == IF x < 0 THEN -x ELSE x

\* compareResults: a goes before b
compareResults(a, b) ==
    IF Abs(a.score - b.score) > ScoreEps
    THEN a.score > b.score
    ELSE IF a.publication_year # b.publication_year
         THEN a.publication_year > b.publication_year
         ELSE a.cited_by_count > b.cited_by_count

\* all orderings of a finite set
Perms(S) ==
    { r \in [1..Cardinality(S) -> S] : \A i, j \in 1..Cardinality(S) : i # j => r[i] # r[j] }

\* compareResults is a strict weak ordering on S, as std::sort and
\* std::partial_sort require
IsStrictWeakOrder(S) ==
    LET equiv(a, b) == ~compareResults(a, b) /\ ~compareResults(b, a)
    IN /\ \A a, b, c \in S : compareResults(a, b) /\ compareResults(b, c) => compareResults(a, c)
       /\ \A a, b, c \in S : equiv(a, b) /\ equiv(b, c) => equiv(a, c)

Sorted(r) == \A i, j \in 1..Len(r) : i < j => ~compareResults(r[j], r[i])

Prefix(r, k) == SubSeq(r, 1, Min(Len(r), k))

\* search 495-502: std::partial_sort + resize(50) above 50 candidates, else
\* std::sort.  Neither is stable, so any sorted order of equivalent elements
\* can come out; with a comparator that is no strict weak ordering the
\* behaviour is undefined and any order can come out.
SortOutcomes(S, k) ==
    { Prefix(r, k) : r \in IF IsStrictWeakOrder(S)
                           THEN { p \in Perms(S) : Sorted(p) }
                           ELSE Perms(S) }

(***************************************************************************)
(* SearchService::get_barrel and SearchService::search (part_022).         *)
(***************************************************************************)
\* get_barrel 291-296: erase EvictCount entries from begin(); the iteration
\* order of the unordered_map is taken as ascending barrel id here
EvictHalf(cache) ==
    LET order == SortedSeq(DOMAIN cache)
        gone == { order[i] : i \in 1..Min(EvictCount, Len(order)) }
    IN [b \in DOMAIN cache \ gone |-> cache[b]]

\* get_barrel 282-311: the cache after a lookup of barrel b
get_barrel(cache, b) ==
    IF b \in DOMAIN cache THEN cache
    ELSE LET c == IF Cardinality(DOMAIN cache) >= CacheLimit THEN EvictHalf(cache) ELSE cache
         IN [x \in DOMAIN c \cup {b} |-> IF x = b THEN BarrelFile(barrelFiles, b) ELSE c[x]]

\* the barrel cache after the first n query words have been processed
RECURSIVE CacheAfter(_, _)
CacheAfter(q, n) ==
    IF n = 0 THEN barrel_cache_
    ELSE LET c == CacheAfter(q, n - 1)
             id == get_word_index(lexicon_trie_, q[n])
         IN IF id = -1 THEN c ELSE get_barrel(c, get_barrel_id(id))

\* search 377-398: combined_entries of query word i, main list then delta list
CombinedEntries(q, i) ==
    LET id == get_word_index(lexicon_trie_, q[i])
        barrel == CacheAfter(q, i)[get_barrel_id(id)]
    IN IF id = -1 THEN << >>
       ELSE (IF id \in DOMAIN barrel THEN barrel[id] ELSE << >>) \o
            (IF id \in DOMAIN delta_index_ THEN delta_index_[id] ELSE << >>)

\* search 363-371: valid_query_words
ValidQueryWords(q) ==
    Cardinality({ i \in 1..Len(q) : get_word_index(lexicon_trie_, q[i]) # -1 })

RECURSIVE CountDoc(_, _)
CountDoc(entries, d) ==
    IF entries = << >> THEN 0
    ELSE (IF Head(entries).doc_id = d THEN 1 ELSE 0) + CountDoc(Tail(entries), d)

RECURSIVE ScoreDoc(_, _, _)
ScoreDoc(entries, d, word_id) ==
    IF entries = << >> THEN 0
    ELSE (IF Head(entries).doc_id = d
          THEN calculate_score(Head(entries), word_id, doc_stats_cache_, document_metadata_)
          ELSE 0) + ScoreDoc(Tail(entries), d, word_id)

\* search 419-420 summed over the first n query words
RECURSIVE doc_match_count(_, _, _)
doc_match_count(q, d, n) ==
    IF n = 0 THEN 0
    ELSE doc_match_count(q, d, n - 1) + CountDoc(CombinedEntries(q, n), d)

RECURSIVE doc_scores(_, _, _)
doc_scores(q, d, n) ==
    IF n = 0 THEN 0
    ELSE doc_scores(q, d, n - 1)
         + ScoreDoc(CombinedEntries(q, n), d, get_word_index(lexicon_trie_, q[n]))

\* search 421: doc_positions_map[doc_id][i] holds the positions of the last
\* entry of the document in the combined list of query word i
HasPositions(q, d, i) == CountDoc(CombinedEntries(q, i), d) > 0

doc_positions(q, d, i) ==
    LET es == CombinedEntries(q, i)
        last == CHOOSE x \in 1..Len(es) :
                    /\ es[x].doc_id = d
                    /\ \A y \in 1..Len(es) : es[y].doc_id = d => y <= x
    IN es[last].positions

\* a bonus for every matching pair of offsets of the words k, k+1
RECURSIVE proximity_per_offset(_, _, _)
proximity_per_offset(q, d, k) ==
    IF k = 0 THEN 0
    ELSE proximity_per_offset(q, d, k - 1) +
         (IF HasPositions(q, d, k) /\ HasPositions(q, d, k + 1)
          THEN ProximityBonus * 1000 * MilliUnits *
               Cardinality({ xy \in (1..Len(doc_positions(q, d, k))) \X
                                    (1..Len(doc_positions(q, d, k + 1))) :
                               doc_positions(q, d, k + 1)[xy[2]] =
                                   doc_positions(q, d, k)[xy[1]] + 1 })
          ELSE 0)

\* search 438-455: bonus for the adjacent query words k, k+1
RECURSIVE proximity(_, _, _)
proximity(q, d, k) ==
    IF k = 0 THEN 0
    ELSE proximity(q, d, k - 1) +
         (IF /\ HasPositions(q, d, k)
             /\ HasPositions(q, d, k + 1)
             /\ \E x \in 1..Len(doc_positions(q, d, k)) :
                  \E y \in 1..Len(doc_positions(q, d, k + 1)) :
                     doc_positions(q, d, k + 1)[y] = doc_positions(q, d, k)[x] + 1
          THEN ProximityBonus * 1000 * MilliUnits ELSE 0)

\* search 429-463: final_results before the sort
FinalResults(q) ==
    LET docs == UNION { { CombinedEntries(q, i)[x].doc_id :
                            x \in 1..Len(CombinedEntries(q, i)) } : i \in 1..Len(q) }
    IN IF ValidQueryWords(q) = 0 THEN {}
       ELSE { [doc_id |-> d,
               score |-> doc_scores(q, d, Len(q)) + proximity(q, d, Len(q) - 1),
               publication_year |-> get_publication_year(document_metadata_, d),
               cited_by_count |-> get_cited_by_count(document_metadata_, d)] :
              d \in { x \in docs : doc_match_count(q, x, Len(q)) = ValidQueryWords(q) } }

\* sequences over S of length lo..hi
SeqsOf(S, lo, hi) == UNION { [1..n -> S] : n \in lo..hi }

Queries == SeqsOf(Words, 1, MaxQuery)

(***************************************************************************)
(* Index machine: initial state and operations.                            *)
(***************************************************************************)
\* the engine starts on a lexicon built offline (ids in sorted order) and no
\* other index file; main and SearchService have loaded the files
IndexInit ==
    /\ lexFile \in { SortedSeq(1..n) : n \in 0..MaxWord }
    /\ fwdFile = << >>
    /\ deltaFile = EmptyMap
    /\ barrelFiles = EmptyMap
    /\ metaFile = {}
    /\ urlFile = {}
    /\ corpusFile = << >>
    /\ statsBin = EmptyMap
    /\ lexicon_ = lexFile
    /\ metadata_ = {}
    /\ url_mapper_ = {}
    /\ lexicon_trie_ = lexFile
    /\ delta_index_ = EmptyMap
    /\ barrel_cache_ = EmptyMap
    /\ document_metadata_ = {}
    /\ doc_url_mapper = {}
    /\ doc_stats_cache_ = EmptyMap
    /\ lastOp = "init"
    /\ lastFail = "none"
    /\ nUploads = 0
    /\ lastQuery = << >>
    /\ lastResult = << >>

\* One /upload request with one PDF, run to completion: doc id from the
\* metadata file (main.cpp 254-268), process_pdf (build_doc_stats against the
\* shared lexicon, enqueue), flush_now -> flush_batch -> update_indices
\* (BatchIndexWriter.cpp 169-295) in which the I/O step `fail` fails, then
\* reload_delta_index and reload_metadata (main.cpp 354-355).
IndexUpload(tokens, fail) ==
    LET doc_id == NextDocId(metaFile)
        stats == build_doc_stats(lexicon_, tokens)
        lex1 == update_from_tokens(lexicon_, tokens)
        \* step 2 reached its end: the forward index could be opened
        fwdOk == fail # "forward_open"
        \* step 3 reached its end: no exception on the delta temp file
        deltaOk == fwdOk /\ fail \notin {"delta_open", "delta_write"}
        meta1 == IF deltaOk THEN metadata_ \cup {doc_id} ELSE metadata_
        url1 == IF deltaOk THEN url_mapper_ \cup {doc_id} ELSE url_mapper_
        delta1 == IF deltaOk /\ fail # "delta_rename"
                  THEN AppendPostings(deltaFile, doc_id, stats) ELSE deltaFile
        metaFile1 == IF deltaOk /\ fail # "meta_save" THEN meta1 ELSE metaFile
    IN /\ nUploads < MaxDocs
       /\ nUploads' = nUploads + 1
       /\ lastFail' = fail
       /\ lastQuery' = << >>
       /\ lastResult' = << >>
       /\ lastOp' = "upload"
       \* 1. lexicon update and save
       /\ lexicon_' = lex1
       /\ lexFile' = lex1
       \* 2. forward index append
       /\ fwdFile' = IF fwdOk THEN Append(fwdFile, ForwardLine(doc_id, stats)) ELSE fwdFile
       \* 3. delta: load, add, temp file, rename (result not checked)
       /\ deltaFile' = delta1
       \* 4. metadata: add_document, save (result not checked)
       /\ metadata_' = meta1
       /\ metaFile' = metaFile1
       \* 5. URL map: add_mapping, save (result not checked)
       /\ url_mapper_' = url1
       /\ urlFile' = IF deltaOk /\ fail # "url_save" THEN url1 ELSE urlFile
       \* 6. test.jsonl append
       /\ corpusFile' = IF deltaOk THEN Append(corpusFile, [doc_id |-> doc_id, body_tokens |-> tokens]) ELSE corpusFile
       \* reload_delta_index: clear, load; reload_metadata: load
       /\ delta_index_' = delta1
       /\ document_metadata_' = metaFile1
       /\ UNCHANGED << barrelFiles, statsBin, lexicon_trie_, barrel_cache_,
                       doc_url_mapper, doc_stats_cache_ >>

\* InvertedIndexBuilder::merge_delta_to_main (part_012 179-223): the delta
\* lists go to the barrel files, the delta file becomes {}; nothing of the
\* running SearchService is touched
IndexMerge ==
    /\ barrelFiles' = MergedBarrels(barrelFiles, deltaFile)
    /\ deltaFile' = EmptyMap
    /\ lastOp' = "merge"
    /\ lastFail' = "none"
    /\ lastQuery' = << >>
    /\ lastResult' = << >>
    /\ UNCHANGED << lexFile, fwdFile, metaFile, urlFile, corpusFile, statsBin,
                    lexicon_, metadata_, url_mapper_, lexicon_trie_,
                    delta_index_, barrel_cache_, document_metadata_,
                    doc_url_mapper, doc_stats_cache_, nUploads >>

\* InvertedIndexBuilder::build (part_012 17-111) on forward_index.jsonl
IndexBuild ==
    /\ barrelFiles' = BuiltBarrels(barrelFiles, fwdFile)
    /\ lastOp' = "build"
    /\ lastFail' = "none"
    /\ lastQuery' = << >>
    /\ lastResult' = << >>
    /\ UNCHANGED << lexFile, fwdFile, deltaFile, metaFile, urlFile, corpusFile,
                    statsBin, lexicon_, metadata_, url_mapper_, lexicon_trie_,
                    delta_index_, barrel_cache_, document_metadata_,
                    doc_url_mapper, doc_stats_cache_, nUploads >>

\* SearchService::search (part_022 337-526).  The semantic blend (468-493)
\* leaves the scores as they are: documents ingested online have no vector,
\* every similarity is 0 and the range is 0.
IndexSearch(q) ==
    /\ barrel_cache_' = CacheAfter(q, Len(q))
    /\ lastQuery' = q
    /\ lastResult' \in SortOutcomes(FinalResults(q), TopK)
    /\ lastOp' = "search"
    /\ lastFail' = "none"
    /\ UNCHANGED << lexFile, fwdFile, deltaFile, barrelFiles, metaFile,
                    urlFile, corpusFile, statsBin, lexicon_, metadata_,
                    url_mapper_, lexicon_trie_, delta_index_,
                    document_metadata_, doc_url_mapper, doc_stats_cache_,
                    nUploads >>

\* the server is restarted: main 31-46 and SearchService::SearchService
\* (part_022 42-84) load every structure from the files
IndexRestart ==
    /\ lexicon_' = lexFile
    /\ metadata_' = metaFile
    /\ url_mapper_' = urlFile
    /\ lexicon_trie_' = lexFile
    /\ doc_url_mapper' = urlFile
    /\ barrel_cache_' = EmptyMap
    /\ document_metadata_' = metaFile
    /\ doc_stats_cache_' = LoadedStats(statsBin, fwdFile)
    /\ statsBin' = LoadedStats(statsBin, fwdFile)
    /\ delta_index_' = deltaFile
    /\ lastOp' = "restart"
    /\ lastFail' = "none"
    /\ lastQuery' = << >>
    /\ lastResult' = << >>
    /\ UNCHANGED << lexFile, fwdFile, deltaFile, barrelFiles, metaFile,
                    urlFile, corpusFile, nUploads >>

IndexNext ==
    \/ \E tokens \in SeqsOf(Words, 1, MaxTokens), fail \in FailPoints :
          IndexUpload(tokens, fail)
    \/ IndexMerge
    \/ IndexBuild
    \/ \E q \in Queries : IndexSearch(q)
    \/ IndexRestart

(***************************************************************************)
(* Ranking machine (part_022 457-502).                                     *)
(***************************************************************************)
\* scores are counted in steps of 0.0000005 above a common base
Scores == 0..MaxScore

Years == {2023, 2024}

Cites == 0..MaxCites

RankInit ==
    /\ final_results = {}
    /\ ranked = << >>
    /\ rankOp = "collect"

\* search 457-463: final_results.push_back(res) for one more document
RankCollect(score, year, cites) ==
    /\ rankOp = "collect"
    /\ Cardinality(final_results) < MaxCand
    /\ final_results' = final_results \cup
          { [doc_id |-> Cardinality(final_results), score |-> score,
             publication_year |-> year, cited_by_count |-> cites] }
    /\ UNCHANGED << ranked, rankOp >>

\* search 495-502: partial_sort and resize above the limit, else sort
RankSort ==
    /\ rankOp = "collect"
    /\ ranked' \in SortOutcomes(final_results, TopK)
    /\ rankOp' = "sorted"
    /\ UNCHANGED final_results

\* the next search starts
RankReset ==
    /\ rankOp = "sorted"
    /\ final_results' = {}
    /\ ranked' = << >>
    /\ rankOp' = "collect"

RankNext ==
    \/ \E score \in Scores, year \in Years, cites \in Cites : RankCollect(score, year, cites)
    \/ RankSort
    \/ RankReset

(***************************************************************************)
(* Prefix-tree machine (part_015 Trie.cpp, part_026 LexiconWithTrie.cpp).  *)
(* A character is its ASCII code, a word a sequence of characters.         *)
(***************************************************************************)
LowerChars == {97, 98}

UpperChars == {65, 66}

\* the terms a lexicon can hold: lower-case words (Lexicon::build_from_jsonl
\* lower-cases every token before it counts it)
Terms == SeqsOf(LowerChars, 1, MaxLen)

\* the lexicons: terms without repetition, in any id order
Lexicons ==
    { l \in SeqsOf(Terms, 0, MaxLex) : \A i, j \in 1..Len(l) : i # j => l[i] # l[j] }

Prefixes == SeqsOf(LowerChars \cup UpperChars, 0, MaxLen)

\* the character as it is, without case folding
no_tolower(c) == c

\* std::tolower on an unsigned char in the C locale
tolower(c) == IF c \in 65..90 THEN c + 32 ELSE c

\* TrieNode(): is_end_of_word(false), word("")
TrieNode == [is_end_of_word |-> FALSE, word |-> << >>]

\* Trie::Trie, Trie::clear: a root without children
EmptyTrie == [p \in { << >> } |-> TrieNode]

\* Trie::insert 43-62 from node `current` with the characters `rest` left
RECURSIVE insert_from(_, _, _, _)
insert_from(trie, current, rest, word) ==
    IF rest = << >>
    THEN [trie EXCEPT ![current] = [is_end_of_word |-> TRUE, word |-> word]]
    ELSE LET child == Append(current, tolower(Head(rest)))
             t1 == IF child \in DOMAIN trie THEN trie
                   ELSE [p \in DOMAIN trie \cup {child} |->
                            IF p = child THEN TrieNode ELSE trie[p]]
         IN insert_from(t1, child, Tail(rest), word)

insert(trie, word) == IF word = << >> THEN trie ELSE insert_from(trie, << >>, word, word)

\* LexiconWithTrie::rebuild_trie 59-70: clear, then insert the words by id
RECURSIVE rebuild_from(_, _)
rebuild_from(trie, words) ==
    IF words = << >> THEN trie
    ELSE rebuild_from(IF Head(words) # << >> THEN insert(trie, Head(words)) ELSE trie,
                      Tail(words))

rebuild_trie(words) == rebuild_from(EmptyTrie, words)

\* node->children: the std::map<char, ...> iterates in ascending key order
children(trie, node) ==
    SortedSeq({ c \in LowerChars \cup UpperChars : Append(node, c) \in DOMAIN trie })

\* Trie::collect_words 98-118
RECURSIVE collect_words(_, _, _, _)
RECURSIVE collect_children(_, _, _, _, _)
collect_words(trie, node, results, max_count) ==
    IF Len(results) >= max_count THEN results
    ELSE LET r1 == IF trie[node].is_end_of_word /\ trie[node].word # << >>
                   THEN Append(results, trie[node].word) ELSE results
         IN IF Len(r1) >= max_count THEN r1
            ELSE collect_children(trie, node, children(trie, node), r1, max_count)

\* collect_words 112-117: the loop over the children
collect_children(trie, node, cs, results, max_count) ==
    IF cs = << >> THEN results
    ELSE LET r == collect_words(trie, Append(node, Head(cs)), results, max_count)
         IN IF Len(r) >= max_count THEN r
            ELSE collect_children(trie, node, Tail(cs), r, max_count)

\* Trie::autocomplete 71-81: walk down the prefix; FALSE in `found` when a
\* character has no child
RECURSIVE descend(_, _, _)
descend(trie, current, rest) ==
    IF rest = << >> THEN [found |-> TRUE, node |-> current]
    ELSE LET child == Append(current, tolower(Head(rest)))
         IN IF child \notin DOMAIN trie THEN [found |-> FALSE, node |-> current]
            ELSE descend(trie, child, Tail(rest))

\* Trie::autocomplete 64-88
autocomplete(trie, prefix, k) ==
    IF k <= 0 THEN << >>
    ELSE LET d == descend(trie, << >>, prefix)
         IN IF ~d.found THEN << >>
            ELSE collect_words(trie, d.node, << >>, k)

\* LexiconWithTrie::LexiconWithTrie: an empty lexicon and an empty tree
TrieInit ==
    /\ lexWords = << >>
    /\ trie_ = EmptyTrie
    /\ trieOp = "new"
    /\ acPrefix = << >>
    /\ acK = 0
    /\ acResult = << >>

\* LexiconWithTrie::load_from_json 31-37: load the word list, rebuild_trie;
\* SearchService::SearchService calls it once and nothing calls it again
LoadLexicon ==
    /\ trieOp = "new"
    /\ \E words \in Lexicons :
          /\ lexWords' = words
          /\ trie_' = rebuild_trie(words)
    /\ trieOp' = "load"
    /\ acPrefix' = << >>
    /\ acK' = 0
    /\ acResult' = << >>

\* LexiconWithTrie::autocomplete 55-57
Autocomplete(prefix, k) ==
    /\ trieOp # "autocomplete"
    /\ acPrefix' = prefix
    /\ acK' = k
    /\ acResult' = autocomplete(trie_, prefix, k)
    /\ trieOp' = "autocomplete"
    /\ UNCHANGED << lexWords, trie_ >>

\* SearchService::autocomplete 546-551: the suggestions go out in the response
AutocompleteReturn ==
    /\ trieOp = "autocomplete"
    /\ trieOp' = IF lexWords = << >> THEN "new" ELSE "load"
    /\ acPrefix' = << >>
    /\ acK' = 0
    /\ acResult' = << >>
    /\ UNCHANGED << lexWords, trie_ >>

TrieNext ==
    \/ LoadLexicon
    \/ \E prefix \in Prefixes, k \in 0..MaxK : Autocomplete(prefix, k)
    \/ AutocompleteReturn

(***************************************************************************)
(* Flush and reload machine (SpecReload): update_indices writing the       *)
(* delta, metadata and URL map files of one batch after the other, a       *)
(* handler reloading the engine after its own flush_now has returned, and  *)
(* a search reading the engine's delta map.  A batch is one document whose *)
(* doc id is the number of batches flushed before it; a posting list is    *)
(* the sequence of the doc ids of its entries.                             *)
(***************************************************************************)
TermIds == 0..(MaxWord - 1)

\* find on a posting map: the list of a term, empty when the key is absent
Lookup(map, t) == IF t \in DOMAIN map THEN map[t] ELSE << >>

\* the doc ids with an entry in a posting map
DocsOf(map) == UNION { { map[t][i] : i \in 1..Len(map[t]) } : t \in DOMAIN map }

\* update_indices 217-248: push the document's entry at the end of the list
\* of each of its terms
AddEntries(map, doc_id, terms) ==
    [t \in DOMAIN map \cup terms |->
        IF t \in terms THEN Append(Lookup(map, t), doc_id) ELSE map[t]]

ReloadInit ==
    /\ diskDelta = EmptyMap
    /\ diskMeta = {}
    /\ diskUrl = {}
    /\ upc = "idle"
    /\ engDelta = EmptyMap
    /\ engMeta = {}
    /\ rpc = "idle"
    /\ rj = EmptyMap
    /\ preDelta = EmptyMap
    /\ sobs = << >>
    /\ spre = << >>
    /\ spost = << >>

\* update_indices 217-265 under flush_mutex_: read the delta file, add the
\* batch's entries, write the temp file, rename it over the delta file
UpdateDelta ==
    /\ upc = "idle"
    /\ Cardinality(diskUrl) < MaxBatches
    /\ \E terms \in (SUBSET TermIds) \ {{}} :
          diskDelta' = AddEntries(diskDelta, Cardinality(diskUrl), terms)
    /\ upc' = "meta"
    /\ UNCHANGED << diskMeta, diskUrl, engDelta, engMeta, rpc, rj, preDelta,
                    sobs, spre, spost >>

\* update_indices 268-271: add_document, DocumentMetadata::save (temp + rename)
UpdateMeta ==
    /\ upc = "meta"
    /\ diskMeta' = diskMeta \cup {Cardinality(diskUrl)}
    /\ upc' = "url"
    /\ UNCHANGED << diskDelta, diskUrl, engDelta, engMeta, rpc, rj, preDelta,
                    sobs, spre, spost >>

\* update_indices 274-277: add_mapping, DocURLMapper::save (temp + rename);
\* flush_batch returns and flush_mutex_ is released
UpdateUrl ==
    /\ upc = "url"
    /\ diskUrl' = diskUrl \cup {Cardinality(diskUrl)}
    /\ upc' = "idle"
    /\ UNCHANGED << diskDelta, diskMeta, engDelta, engMeta, rpc, rj, preDelta,
                    sobs, spre, spost >>

\* main.cpp 354 and reload_delta_index 556: a handler whose own batch is
\* flushed calls reload_delta_index, which clears the map; no lock is taken
ReloadClear ==
    /\ rpc = "idle"
    /\ diskUrl # {}
    /\ preDelta' = engDelta
    /\ engDelta' = EmptyMap
    /\ rpc' = "parse"
    /\ UNCHANGED << diskDelta, diskMeta, diskUrl, upc, engMeta, rj,
                    sobs, spre, spost >>

\* load_delta_index 254-262: open the delta file and parse it
ReloadParse ==
    /\ rpc = "parse"
    /\ rj' = diskDelta
    /\ rpc' = IF DOMAIN diskDelta = {} THEN "meta" ELSE "insert"
    /\ UNCHANGED << diskDelta, diskMeta, diskUrl, upc, engDelta, engMeta,
                    preDelta, sobs, spre, spost >>

\* load_delta_index 263-274: one turn of the loop over j.items(), in key
\* order: delta_index_[word_id] = entries
ReloadInsert ==
    /\ rpc = "insert"
    /\ LET k == CHOOSE x \in DOMAIN rj \ DOMAIN engDelta :
                    \A y \in DOMAIN rj \ DOMAIN engDelta : x <= y
       IN /\ engDelta' = [t \in DOMAIN engDelta \cup {k} |->
                             IF t = k THEN rj[k] ELSE engDelta[t]]
          /\ rpc' = IF DOMAIN rj \ DOMAIN engDelta = {k} THEN "meta" ELSE "insert"
    /\ UNCHANGED << diskDelta, diskMeta, diskUrl, upc, engMeta, rj, preDelta,
                    sobs, spre, spost >>

\* main.cpp 355 and reload_metadata 561-565: load the metadata file
ReloadMeta ==
    /\ rpc = "meta"
    /\ engMeta' = diskMeta
    /\ rpc' = "done"
    /\ UNCHANGED << diskDelta, diskMeta, diskUrl, upc, engDelta, rj, preDelta,
                    sobs, spre, spost >>

\* the handler responds; a later request reloads again
ReloadReturn ==
    /\ rpc = "done"
    /\ rpc' = "idle"
    /\ rj' = EmptyMap
    /\ preDelta' = EmptyMap
    /\ UNCHANGED << diskDelta, diskMeta, diskUrl, upc, engDelta, engMeta,
                    sobs, spre, spost >>

\* search 395-398 for one query term, on another request thread:
\* delta_index_.count(word_id), then the list is copied; no lock is taken.
\* During a reload the search also notes the list as it was before the
\* reload and as the reload is loading it.
SearchRead(t) ==
    /\ sobs' = Lookup(engDelta, t)
    /\ IF rpc \in {"parse", "insert"}
       THEN /\ spre' = Lookup(preDelta, t)
            /\ spost' = IF rpc = "insert" THEN Lookup(rj, t) ELSE Lookup(diskDelta, t)
       ELSE /\ spre' = Lookup(engDelta, t)
            /\ spost' = Lookup(engDelta, t)
    /\ UNCHANGED << diskDelta, diskMeta, diskUrl, upc, engDelta, engMeta, rpc,
                    rj, preDelta >>

ReloadNext ==
    \/ UpdateDelta
    \/ UpdateMeta
    \/ UpdateUrl
    \/ ReloadClear
    \/ ReloadParse
    \/ ReloadInsert
    \/ ReloadMeta
    \/ ReloadReturn
    \/ \E t \in TermIds : SearchRead(t)

(***************************************************************************)
(* Lexicon machine (SpecLex): build_from_jsonl, save_to_json,              *)
(* load_from_json, the lookups, and the online extension that the batch    *)
(* writer calls while pool workers look words up.                          *)
(***************************************************************************)
\* the tokens of the model: "aba", "Aba", "bab", "ab", "111", "the"
LexTokens == { << 97, 98, 97 >>, << 65, 98, 97 >>, << 98, 97, 98 >>,
               << 97, 98 >>, << 49, 49, 49 >>, << 116, 104, 101 >> }

\* a token list of one or two tokens: a document of the corpus, or the
\* tokens of a batch
LexDocs == { << t >> : t \in LexTokens } \cup
           { << s, t >> : s \in LexTokens, t \in LexTokens }

\* the cleaned JSONL inputs of a build: up to MaxLexDocs lines
Corpora == UNION { [1..n -> LexDocs] : n \in 0..MaxLexDocs }

\* load_default_stopwords: "the" of the built-in list
stop_words_ == { << 116, 104, 101 >> }

\* the token as build_from_jsonl keys it when the transform is left out
keep_token(tok) == tok

\* build_from_jsonl 162-163: transform(tok.begin(), tok.end(), ..., tolower)
transform_token(tok) == [i \in 1..Len(tok) |-> tolower(tok[i])]

\* get_word_index 266-267: the same transform on the looked-up word
transform_word(word) == [i \in 1..Len(word) |-> tolower(word[i])]

isdigit(c) == c \in 48..57

\* is_significant_word 67-78
is_significant_word(word) ==
    /\ word # << >>
    /\ LET w == transform_word(word)
       IN /\ w \notin stop_words_
          /\ Len(w) >= 3
          /\ ~(\A i \in 1..Len(w) : isdigit(w[i]))

\* build_from_jsonl 160-166: doc_set of one line
doc_set(tokens) == { transform_token(tokens[i]) : i \in 1..Len(tokens) }

\* build_from_jsonl 156-167: document frequency of every token
word_frequencies(corpus) ==
    [w \in UNION { doc_set(corpus[d]) : d \in 1..Len(corpus) } |->
        Cardinality({ d \in 1..Len(corpus) : w \in doc_set(corpus[d]) })]

\* freqs[k] of the ascending sort of the frequencies (k from 0)
sorted_freq(wf, k) ==
    CHOOSE v \in { wf[w] : w \in DOMAIN wf } :
        /\ Cardinality({ w \in DOMAIN wf : wf[w] < v }) <= k
        /\ Cardinality({ w \in DOMAIN wf : wf[w] <= v }) > k

\* build_from_jsonl 174-185: the maximum frequency cutoff
max_freq(wf) ==
    LET n == Cardinality(DOMAIN wf)
        exclude_count == (n * (100 - max_frequency_percentile_)) \div 100
        threshold_index == n - exclude_count
    IN IF n > 0 /\ max_frequency_percentile_ < 100 /\ threshold_index < n
       THEN sorted_freq(wf, threshold_index)
       ELSE INT_MAX

\* build_from_jsonl 188-192: the significant words
significant(corpus) ==
    LET wf == word_frequencies(corpus)
    IN { w \in DOMAIN wf :
            /\ is_significant_word(w)
            /\ wf[w] >= min_frequency_
            /\ (max_freq(wf) = INT_MAX \/ wf[w] < max_freq(wf)) }

\* std::string operator<: lexicographic order of the character codes
string_less(a, b) ==
    \/ Len(a) < Len(b) /\ SubSeq(b, 1, Len(a)) = a
    \/ \E i \in 1..Min(Len(a), Len(b)) :
          /\ a[i] < b[i]
          /\ \A j \in 1..(i - 1) : a[j] = b[j]

\* build_from_jsonl 194: sort by word
RECURSIVE sort_words(_)
sort_words(S) ==
    IF S = {} THEN << >>
    ELSE LET m == CHOOSE x \in S : \A y \in S \ {x} : string_less(x, y)
         IN << m >> \o sort_words(S \ {m})

NoWords == [w \in {} |-> 0]

EmptyLexicon == [word_to_index |-> NoWords, index_to_word |-> << >>]

\* build_from_jsonl 195-199: ids in sorted order
build_from_jsonl(corpus) ==
    LET s == sort_words(significant(corpus))
    IN [word_to_index |-> [w \in SeqToSet(s) |-> (CHOOSE i \in 1..Len(s) : s[i] = w) - 1],
        index_to_word |-> s]

\* save_to_json (part_025 208-224): the object word_to_index and the array
\* index_to_word
save_to_json(w2i, i2w) == [word_to_index |-> w2i, index_to_word |-> i2w]

\* load_from_json (part_025 242-258): the integer entries of word_to_index,
\* the array index_to_word, and the map rebuilt from the array when the
\* object gave no entry (a later position overwrites an earlier one)
load_from_json(j) ==
    [word_to_index |->
        IF DOMAIN j.word_to_index # {} THEN j.word_to_index
        ELSE [w \in SeqToSet(j.index_to_word) |->
                 SetMax({ i \in 1..Len(j.index_to_word) : j.index_to_word[i] = w }) - 1],
     index_to_word |-> j.index_to_word]

\* Lexicon::get_word_index (part_025 265-270)
Lexicon_get_word_index(w2i, word) ==
    LET w == transform_word(word)
    IN IF w \in DOMAIN w2i THEN w2i[w] ELSE -1

\* Lexicon::get_word (part_025 272-275): "" when the index is out of range
Lexicon_get_word(i2w, index) ==
    IF index < 0 \/ index >= Len(i2w) THEN << >> ELSE i2w[index + 1]

\* the extension of a lexicon that sorts the words again after adding one
add_token_sorted(lex, tok) ==
    LET w == transform_token(tok)
        s == sort_words(DOMAIN lex.word_to_index \cup {w})
    IN IF is_significant_word(w) /\ w \notin DOMAIN lex.word_to_index
       THEN [word_to_index |-> [v \in SeqToSet(s) |-> (CHOOSE i \in 1..Len(s) : s[i] = v) - 1],
             index_to_word |-> s]
       ELSE lex

\* Lexicon::update_from_tokens for one token: an unseen token that passes
\* the filter gets the id size()
add_token(lex, tok) ==
    LET w == transform_token(tok)
    IN IF is_significant_word(w) /\ w \notin DOMAIN lex.word_to_index
       THEN [word_to_index |->
                [v \in DOMAIN lex.word_to_index \cup {w} |->
                    IF v = w THEN Cardinality(DOMAIN lex.word_to_index)
                    ELSE lex.word_to_index[v]],
             index_to_word |-> Append(lex.index_to_word, w)]
       ELSE lex

\* Lexicon::update_from_tokens: the tokens of the batch in order
RECURSIVE extend_with_tokens(_, _)
extend_with_tokens(lex, tokens) ==
    IF tokens = << >> THEN lex
    ELSE extend_with_tokens(add_token(lex, Head(tokens)), Tail(tokens))

\* the lexicon object of the process
TheLexicon == [word_to_index |-> word_to_index_, index_to_word |-> index_to_word_]

LexInit ==
    /\ word_to_index_ = NoWords
    /\ index_to_word_ = << >>
    /\ lexiconJson = << >>
    /\ lexOp = "new"
    /\ xpc = "idle"
    /\ xtokens = << >>
    /\ xpre = EmptyLexicon
    /\ xpost = EmptyLexicon
    /\ lkSeen = NoWords
    /\ lkPre = NoWords
    /\ lkPost = NoWords
    /\ lkResult = -1
    /\ engineTrie = EmptyTrie

\* build_from_jsonl 143-212: build from the corpus and save
Build ==
    /\ lexOp = "new"
    /\ \E corpus \in Corpora :
          LET lex == build_from_jsonl(corpus)
          IN /\ word_to_index_' = lex.word_to_index
             /\ index_to_word_' = lex.index_to_word
             /\ lexiconJson' = << save_to_json(lex.word_to_index, lex.index_to_word) >>
    /\ lexOp' = "build"
    /\ UNCHANGED << xpc, xtokens, xpre, xpost, lkSeen, lkPre, lkPost, lkResult,
                    engineTrie >>

\* a start of the server.  SearchService::SearchService (main.cpp 31) loads
\* lexicon.json into its LexiconWithTrie and rebuilds the prefix tree from it;
\* main.cpp 34-35 loads the same file into the Lexicon that the pool and the
\* batch writer share.  A file that cannot be opened leaves a lexicon as it
\* is, and the tree of the new engine empty.
Load ==
    /\ xpc = "idle"
    /\ IF lexiconJson = << >>
       THEN /\ UNCHANGED << word_to_index_, index_to_word_ >>
            /\ engineTrie' = EmptyTrie
       ELSE LET lex == load_from_json(lexiconJson[1])
            IN /\ word_to_index_' = lex.word_to_index
               /\ index_to_word_' = lex.index_to_word
               /\ engineTrie' = rebuild_trie(lex.index_to_word)
    /\ lexOp' = "load"
    /\ UNCHANGED << lexiconJson, xpc, xtokens, xpre, xpost, lkSeen, lkPre,
                    lkPost, lkResult >>

\* update_indices 170-178: the batch writer calls update_from_tokens with
\* the tokens of the batch; the extension takes the lexicon's write lock
ExtendBegin ==
    /\ xpc = "idle"
    /\ lexOp \in {"load", "extend"}
    /\ \E tokens \in LexDocs :
          /\ xtokens' = tokens
          /\ xpost' = extend_with_tokens(TheLexicon, tokens)
    /\ xpre' = TheLexicon
    /\ xpc' = "insert"
    /\ UNCHANGED << word_to_index_, index_to_word_, lexiconJson, lexOp,
                    lkSeen, lkPre, lkPost, lkResult, engineTrie >>

\* update_from_tokens: the next token of the batch
ExtendInsert ==
    /\ xpc = "insert"
    /\ LET lex == add_token(TheLexicon, Head(xtokens))
       IN /\ word_to_index_' = lex.word_to_index
          /\ index_to_word_' = lex.index_to_word
    /\ xtokens' = Tail(xtokens)
    /\ xpc' = IF Tail(xtokens) = << >> THEN "save" ELSE "insert"
    /\ UNCHANGED << lexiconJson, lexOp, xpre, xpost, lkSeen, lkPre, lkPost,
                    lkResult, engineTrie >>

\* update_from_tokens: the persisted save, then the write lock is released
ExtendSave ==
    /\ xpc = "save"
    /\ lexiconJson' = << save_to_json(word_to_index_, index_to_word_) >>
    /\ lexOp' = "extend"
    /\ xpc' = "idle"
    /\ UNCHANGED << word_to_index_, index_to_word_, xtokens, xpre, xpost,
                    lkSeen, lkPre, lkPost, lkResult, engineTrie >>

\* build_doc_stats 214-234 on a pool worker: get_word_index of one token;
\* no lock is taken.  The lookup also notes the lexicon of before and
\* after the extension it runs in.
LookupWord(word) ==
    /\ lexOp \in {"load", "extend"}
    /\ lkResult' = Lexicon_get_word_index(word_to_index_, word)
    /\ lkSeen' = word_to_index_
    /\ lkPre' = IF xpc = "idle" THEN word_to_index_ ELSE xpre.word_to_index
    /\ lkPost' = IF xpc = "idle" THEN word_to_index_ ELSE xpost.word_to_index
    /\ UNCHANGED << word_to_index_, index_to_word_, lexiconJson, lexOp, xpc,
                    xtokens, xpre, xpost, engineTrie >>

LexNext ==
    \/ Build
    \/ Load
    \/ ExtendBegin
    \/ ExtendInsert
    \/ ExtendSave
    \/ \E word \in LexTokens : LookupWord(word)

(***************************************************************************)
(* Shutdown machine: the worker loop of PDFProcessingPool, the loop of the *)
(* batch writer's thread, and the two destructors that main runs, the      *)
(* pool's first.  queue_cv_.wait(lock, pred) is the loop                   *)
(* while (!pred()) wait(lock): the predicate is evaluated under the mutex, *)
(* and wait(lock) releases the mutex and blocks in one step.  The batch    *)
(* writer's document queue is empty throughout.                            *)
(***************************************************************************)
ShutdownInit ==
    /\ shutdown_ = FALSE
    /\ poolMutex = NoOwner
    /\ poolQueue = << >>
    /\ promise = << >>
    /\ pw = [w \in Workers |-> "test"]
    /\ pwTask = [w \in Workers |-> 0]
    /\ waiters = {}
    /\ dpc = "alive"
    /\ writerShutdown = FALSE
    /\ wth = "test"

\* submit_pdf 37-58: push the task under queue_mutex_, then notify_one
SubmitPdf ==
    /\ dpc = "alive"
    /\ Len(promise) < MaxTasks
    /\ poolMutex = NoOwner
    /\ poolQueue' = Append(poolQueue, Len(promise) + 1)
    /\ promise' = Append(promise, "pending")
    /\ IF waiters = {}
       THEN UNCHANGED << waiters, pw >>
       ELSE \E w \in waiters :
               /\ waiters' = waiters \ {w}
               /\ pw' = [pw EXCEPT ![w] = "relock"]
    /\ UNCHANGED << shutdown_, poolMutex, pwTask, dpc, writerShutdown, wth >>

\* worker_thread 66: while (!shutdown_)
WorkerTest(w) ==
    /\ pw[w] = "test"
    /\ pw' = [pw EXCEPT ![w] = IF shutdown_ THEN "exited" ELSE "lock"]
    /\ UNCHANGED << shutdown_, poolMutex, poolQueue, promise, pwTask, waiters,
                    dpc, writerShutdown, wth >>

\* worker_thread 67: unique_lock lock(queue_mutex_); and the mutex taken
\* again by a worker that wait() has woken
WorkerLock(w) ==
    /\ pw[w] \in {"lock", "relock"}
    /\ poolMutex = NoOwner
    /\ poolMutex' = w
    /\ pw' = [pw EXCEPT ![w] = "pred"]
    /\ UNCHANGED << shutdown_, poolQueue, promise, pwTask, waiters, dpc,
                    writerShutdown, wth >>

\* worker_thread 69-71: the predicate shutdown_ || !task_queue_.empty()
WorkerPred(w) ==
    /\ pw[w] = "pred"
    /\ pw' = [pw EXCEPT ![w] = IF shutdown_ \/ poolQueue # << >>
                                THEN "check" ELSE "block"]
    /\ UNCHANGED << shutdown_, poolMutex, poolQueue, promise, pwTask, waiters,
                    dpc, writerShutdown, wth >>

\* worker_thread 69: wait(lock) releases queue_mutex_ and blocks
WorkerBlock(w) ==
    /\ pw[w] = "block"
    /\ poolMutex' = NoOwner
    /\ waiters' = waiters \cup {w}
    /\ pw' = [pw EXCEPT ![w] = "waiting"]
    /\ UNCHANGED << shutdown_, poolQueue, promise, pwTask, dpc,
                    writerShutdown, wth >>

\* worker_thread 73-85: break when shut down with an empty queue, continue
\* on an empty queue, else pop the front task and unlock
WorkerCheck(w) ==
    /\ pw[w] = "check"
    /\ poolMutex' = NoOwner
    /\ IF poolQueue = << >>
       THEN /\ pw' = [pw EXCEPT ![w] = IF shutdown_ THEN "exited" ELSE "test"]
            /\ UNCHANGED << poolQueue, pwTask >>
       ELSE /\ pwTask' = [pwTask EXCEPT ![w] = Head(poolQueue)]
            /\ poolQueue' = Tail(poolQueue)
            /\ pw' = [pw EXCEPT ![w] = "process"]
    /\ UNCHANGED << shutdown_, promise, waiters, dpc, writerShutdown, wth >>

\* worker_thread 87-96 with process_pdf: set_value(doc_id), or the exception
\* stored with set_exception; then the loop test again
WorkerProcess(w) ==
    /\ pw[w] = "process"
    /\ \E outcome \in {"value", "exception"} :
          promise' = [promise EXCEPT ![pwTask[w]] = outcome]
    /\ pwTask' = [pwTask EXCEPT ![w] = 0]
    /\ pw' = [pw EXCEPT ![w] = "test"]
    /\ UNCHANGED << shutdown_, poolMutex, poolQueue, waiters, dpc,
                    writerShutdown, wth >>

\* the steps of one pool worker
PoolWorker(w) ==
    \/ WorkerTest(w)
    \/ WorkerLock(w)
    \/ WorkerPred(w)
    \/ WorkerBlock(w)
    \/ WorkerCheck(w)
    \/ WorkerProcess(w)

\* ~PDFProcessingPool 27: shutdown_ = true, queue_mutex_ not held
PoolSetShutdown ==
    /\ dpc = "alive"
    /\ shutdown_' = TRUE
    /\ dpc' = "pool_notify"
    /\ UNCHANGED << poolMutex, poolQueue, promise, pw, pwTask, waiters,
                    writerShutdown, wth >>

\* ~PDFProcessingPool 28: queue_cv_.notify_all() wakes the workers that are
\* blocked in wait at this moment
PoolNotifyAll ==
    /\ dpc = "pool_notify"
    /\ pw' = [w \in Workers |-> IF w \in waiters THEN "relock" ELSE pw[w]]
    /\ waiters' = {}
    /\ dpc' = "pool_join"
    /\ UNCHANGED << shutdown_, poolMutex, poolQueue, promise, pwTask,
                    writerShutdown, wth >>

\* ~PDFProcessingPool 30-34: every worker joined; then the members are
\* destroyed, and the promise of a task left in task_queue_ is broken
PoolJoin ==
    /\ dpc = "pool_join"
    /\ \A w \in Workers : pw[w] = "exited"
    /\ promise' = [t \in DOMAIN promise |->
                      IF t \in SeqToSet(poolQueue) THEN "broken" ELSE promise[t]]
    /\ poolQueue' = << >>
    /\ dpc' = "writer_set"
    /\ UNCHANGED << shutdown_, poolMutex, pw, pwTask, waiters, writerShutdown,
                    wth >>

\* ~BatchIndexWriter 29: shutdown_ = true
WriterSetShutdown ==
    /\ dpc = "writer_set"
    /\ writerShutdown' = TRUE
    /\ dpc' = "writer_notify"
    /\ UNCHANGED << shutdown_, poolMutex, poolQueue, promise, pw, pwTask,
                    waiters, wth >>

\* ~BatchIndexWriter 30: queue_cv_.notify_all()
WriterNotifyAll ==
    /\ dpc = "writer_notify"
    /\ wth' = IF wth = "waiting" THEN "pred" ELSE wth
    /\ dpc' = "writer_join"
    /\ UNCHANGED << shutdown_, poolMutex, poolQueue, promise, pw, pwTask,
                    waiters, writerShutdown >>

\* ~BatchIndexWriter 31-41: join, then the flush of what is left in queue_
WriterJoin ==
    /\ dpc = "writer_join"
    /\ wth = "exited"
    /\ dpc' = "done"
    /\ UNCHANGED << shutdown_, poolMutex, poolQueue, promise, pw, pwTask,
                    waiters, writerShutdown, wth >>

\* the steps of main once svr.listen has returned
Destructors ==
    \/ PoolSetShutdown
    \/ PoolNotifyAll
    \/ PoolJoin
    \/ WriterSetShutdown
    \/ WriterNotifyAll
    \/ WriterJoin

\* writer_thread 92-93: while (!shutdown_), unique_lock lock(queue_mutex_)
WriterTest ==
    /\ wth = "test"
    /\ wth' = IF writerShutdown THEN "exited" ELSE "pred"
    /\ UNCHANGED << shutdown_, poolMutex, poolQueue, promise, pw, pwTask,
                    waiters, dpc, writerShutdown >>

\* writer_thread 95-100: the predicate of wait_for, with an empty queue and
\* the flush interval not yet over
WriterPred ==
    /\ wth = "pred"
    /\ wth' = IF writerShutdown THEN "body" ELSE "block"
    /\ UNCHANGED << shutdown_, poolMutex, poolQueue, promise, pw, pwTask,
                    waiters, dpc, writerShutdown >>

\* writer_thread 95: wait_for releases the mutex and blocks
WriterBlock ==
    /\ wth = "block"
    /\ wth' = "waiting"
    /\ UNCHANGED << shutdown_, poolMutex, poolQueue, promise, pw, pwTask,
                    waiters, dpc, writerShutdown >>

\* writer_thread 95: flush_interval_ is over, wait_for returns
WriterTimeout ==
    /\ wth = "waiting"
    /\ wth' = "body"
    /\ UNCHANGED << shutdown_, poolMutex, poolQueue, promise, pw, pwTask,
                    waiters, dpc, writerShutdown >>

\* writer_thread 102: if (queue_.empty()) continue
WriterBody ==
    /\ wth = "body"
    /\ wth' = "test"
    /\ UNCHANGED << shutdown_, poolMutex, poolQueue, promise, pw, pwTask,
                    waiters, dpc, writerShutdown >>

\* the steps of the writer thread
WriterThread ==
    \/ WriterTest
    \/ WriterPred
    \/ WriterBlock
    \/ WriterTimeout
    \/ WriterBody

ShutdownNext ==
    \/ SubmitPdf
    \/ \E w \in Workers : PoolWorker(w)
    \/ Destructors
    \/ WriterThread

(***************************************************************************)
(* Startup machine (SpecStart): the SearchService constructor on persisted *)
(* files in any condition, then search and autocomplete calls.             *)
(***************************************************************************)
JsonStates == {"ok", "missing", "garbled", "mistyped"}

BinaryStates == {"ok", "missing", "garbled"}

StartInit ==
    /\ sfLexicon \in JsonStates
    /\ sfMetadata \in JsonStates
    /\ sfUrlMap \in JsonStates
    /\ sfBarrel \in JsonStates
    /\ sfDelta \in JsonStates
    /\ sfDocStats \in BinaryStates
    /\ engine = "off"
    /\ lexLoaded = FALSE
    /\ deltaLoaded = FALSE
    /\ barrelCached = FALSE
    /\ callOutcome = "none"

\* Lexicon::load_from_json (part_025 227-262): "loaded", "not_loaded" (the
\* file cannot be opened, or parse_error is caught), or "throws" (the
\* type_error of get<vector<string>>() at 253 is outside the try block)
LexiconLoad(f) ==
    CASE f = "ok" -> "loaded"
      [] f = "missing" -> "not_loaded"
      [] f = "garbled" -> "not_loaded"
      [] f = "mistyped" -> "throws"

\* SearchService::SearchService 42-84, constructed at main.cpp 31 outside
\* any try block: the lexicon, URL map and metadata loads, then
\* load_document_stats and load_delta_index.  DocURLMapper::load,
\* DocumentMetadata::load and load_delta_index catch what their parsing
\* throws; load_doc_stats_from_cache returns false on a failed read and the
\* stats are rebuilt; a mistyped delta file leaves the entries read before
\* the bad one.
StartEngine ==
    /\ engine = "off"
    /\ IF LexiconLoad(sfLexicon) = "throws"
       THEN /\ engine' = "terminated"
            /\ UNCHANGED << lexLoaded, deltaLoaded >>
       ELSE /\ engine' = "running"
            /\ lexLoaded' = (LexiconLoad(sfLexicon) = "loaded")
            /\ \/ /\ sfDelta = "ok"
                  /\ deltaLoaded' = TRUE
               \/ /\ sfDelta \in {"missing", "garbled"}
                  /\ deltaLoaded' = FALSE
               \/ /\ sfDelta = "mistyped"
                  /\ deltaLoaded' \in BOOLEAN
    /\ UNCHANGED << sfLexicon, sfMetadata, sfUrlMap, sfBarrel, sfDelta,
                    sfDocStats, barrelCached, callOutcome >>

\* get_barrel 282-311 followed by the entry loop of search 375-392:
\* "cached" (an empty object for a missing file), or "throws": f >> j is not
\* in a try block, and neither are the get<int>() calls on the entries
BarrelRead(f) ==
    CASE f = "ok" -> "cached"
      [] f = "missing" -> "cached"
      [] f = "garbled" -> "throws"
      [] f = "mistyped" -> "throws"

\* SearchService::search 337-493 from the /search handler (main.cpp
\* 136-145, no try block) for a query of one word: a word the lexicon does
\* not know gives the empty result; otherwise the barrel is read through
\* get_barrel and the delta entries are added.  A mistyped barrel is cached
\* by get_barrel and throws again in the entry loop of every later search.
Search(known) ==
    /\ engine = "running"
    /\ IF ~(known /\ lexLoaded)
       THEN /\ callOutcome' = "empty"
            /\ UNCHANGED barrelCached
       ELSE IF BarrelRead(sfBarrel) = "throws"
            THEN /\ callOutcome' = "exception"
                 /\ barrelCached' = (sfBarrel = "mistyped")
            ELSE /\ callOutcome' = IF sfBarrel = "ok" \/ deltaLoaded
                                   THEN "results" ELSE "empty"
                 /\ barrelCached' = TRUE
    /\ UNCHANGED << sfLexicon, sfMetadata, sfUrlMap, sfBarrel, sfDelta,
                    sfDocStats, engine, lexLoaded, deltaLoaded >>

\* SearchService::autocomplete from the /autocomplete handler (main.cpp
\* 148-166): a walk of the prefix tree, which is empty without a lexicon
Complete ==
    /\ engine = "running"
    /\ callOutcome' = IF lexLoaded THEN "results" ELSE "empty"
    /\ UNCHANGED << sfLexicon, sfMetadata, sfUrlMap, sfBarrel, sfDelta,
                    sfDocStats, engine, lexLoaded, deltaLoaded, barrelCached >>

StartNext ==
    \/ StartEngine
    \/ \E known \in BOOLEAN : Search(known)
    \/ Complete

(***************************************************************************)
(* Barrel cache machine (SpecCache): get_barrel (part_022 282-311) step by *)
(* step on the threads of the HTTP server, which run /search handlers      *)
(* side by side, and the entry loop of search (381-392) that reads the     *)
(* shard through the reference get_barrel returned.  SearchService has no  *)
(* mutex.                                                                  *)
(***************************************************************************)
Searchers == 1..NumSearchers

\* the barrels a query asks for: the cached barrel with the lowest id, and
\* the lowest id below MaxBarrel that is neither cached nor asked for by a
\* lookup in progress
Requests ==
    LET free == { b \in 0..(Min(MaxBarrel, NumBarrels) - 1) :
                     b \notin cachedBarrels /\ \A s \in Searchers : sbarrel[s] # b }
    IN (IF free = {} THEN {} ELSE { CHOOSE b \in free : \A c \in free : b <= c }) \cup
       (IF cachedBarrels = {} THEN {}
        ELSE { CHOOSE b \in cachedBarrels : \A c \in cachedBarrels : b <= c })

\* the engine has served WarmBarrels searches one after the other, for the
\* barrels 0, 1, ... in this order
CacheInit ==
    /\ cachedBarrels = 0..(WarmBarrels - 1)
    /\ spc = [s \in Searchers |-> "idle"]
    /\ sbarrel = [s \in Searchers |-> -1]
    /\ sresult = [s \in Searchers |-> "none"]
    /\ evictions = 0
    /\ loadOrder = [i \in 1..WarmBarrels |-> i - 1]

\* search 374-375: barrel_id = word_id % 100, get_barrel(barrel_id)
SearchBegin(s, b) ==
    /\ spc[s] = "idle"
    /\ evictions < MaxEvictions
    /\ spc' = [spc EXCEPT ![s] = "find"]
    /\ sbarrel' = [sbarrel EXCEPT ![s] = b]
    /\ sresult' = [sresult EXCEPT ![s] = "none"]
    /\ UNCHANGED << cachedBarrels, evictions, loadOrder >>

\* get_barrel 283-287: a hit returns the reference to the cached shard
CacheFind(s) ==
    /\ spc[s] = "find"
    /\ spc' = [spc EXCEPT ![s] = IF sbarrel[s] \in cachedBarrels THEN "read" ELSE "check"]
    /\ UNCHANGED << cachedBarrels, sbarrel, sresult, evictions, loadOrder >>

\* get_barrel 291: barrel_cache_.size() >= 30
CacheCheck(s) ==
    /\ spc[s] = "check"
    /\ spc' = [spc EXCEPT ![s] =
                  IF Cardinality(cachedBarrels) >= CacheLimit THEN "evict" ELSE "insert"]
    /\ UNCHANGED << cachedBarrels, sbarrel, sresult, evictions, loadOrder >>

\* the orders in which barrel_cache_.begin() may walk the entries.  The
\* container is a std::unordered_map (SearchService.hpp 28): its iteration
\* order follows the bucket layout and is not specified; the orders taken
\* here are oldest first, newest first and ascending key
IterationOrders ==
    { loadOrder,
      [i \in 1..Len(loadOrder) |-> loadOrder[Len(loadOrder) + 1 - i]],
      SortedSeq(cachedBarrels) }

\* get_barrel 293-295: erase the first 15 entries from begin()
CacheEvict(s) ==
    /\ spc[s] = "evict"
    /\ \E order \in IterationOrders :
          LET gone == { order[i] : i \in 1..Min(EvictCount, Len(order)) }
          IN /\ cachedBarrels' = cachedBarrels \ gone
             /\ loadOrder' = SelectSeq(loadOrder, LAMBDA b : b \notin gone)
    /\ evictions' = evictions + 1
    /\ spc' = [spc EXCEPT ![s] = "insert"]
    /\ UNCHANGED << sbarrel, sresult >>

\* get_barrel 298-310: read the file, barrel_cache_[barrel_id] = the shard
\* (an empty object for a missing file), return the reference
CacheInsert(s) ==
    /\ spc[s] = "insert"
    /\ cachedBarrels' = cachedBarrels \cup {sbarrel[s]}
    /\ loadOrder' = IF sbarrel[s] \in cachedBarrels THEN loadOrder
                    ELSE Append(loadOrder, sbarrel[s])
    /\ spc' = [spc EXCEPT ![s] = "read"]
    /\ UNCHANGED << sbarrel, sresult, evictions >>

\* search 381-392: the entries are read through the reference.  A shard
\* that another thread has erased in the meantime leaves the reference
\* dangling, and the read is undefined: it may still see the old bytes.
ReadShard(s) ==
    /\ spc[s] = "read"
    /\ IF sbarrel[s] \in cachedBarrels
       THEN sresult' = [sresult EXCEPT ![s] = "correct"]
       ELSE \E r \in {"correct", "undefined"} : sresult' = [sresult EXCEPT ![s] = r]
    /\ spc' = [spc EXCEPT ![s] = "idle"]
    /\ sbarrel' = [sbarrel EXCEPT ![s] = -1]
    /\ UNCHANGED << cachedBarrels, evictions, loadOrder >>

CacheNext ==
    \/ \E s \in Searchers : \E b \in Requests : SearchBegin(s, b)
    \/ \E s \in Searchers : CacheFind(s)
    \/ \E s \in Searchers : CacheCheck(s)
    \/ \E s \in Searchers : CacheEvict(s)
    \/ \E s \in Searchers : CacheInsert(s)
    \/ \E s \in Searchers : ReadShard(s)

(***************************************************************************)
(* Batch writer machine (BatchIndexWriter.cpp).  A critical section of     *)
(* queue_mutex_ is one atomic action; flush_mutex_ is held across steps.   *)
(* queue_cv_.wait_for(lock, interval, pred) evaluates the predicate under  *)
(* the lock, blocks with the lock released when it is false, evaluates it  *)
(* again after a notification or a spurious wakeup, and returns at the     *)
(* latest when the interval has run out.                                   *)
(***************************************************************************)
Callers == 1..NumCallers

WriterId == NumCallers + 1

\* a request thread outside flush_now: no call yet, or the way its last call
\* returned (line 68 on an empty queue, line 84 after the flush)
Returned == {"idle", "empty", "flushed"}

BwInit ==
    /\ bqueue = << >>
    /\ benq = 0
    /\ bmutex = NoOwner
    /\ bdue = FALSE
    /\ bstop = FALSE
    /\ bpc = "test"
    /\ bbatch = << >>
    /\ fpc = [c \in Callers |-> "idle"]
    /\ fbatch = [c \in Callers |-> << >>]
    /\ bdtor = "alive"
    /\ bhanded = {}
    /\ bstats = [documents_indexed |-> 0, batches_flushed |-> 0, updates |-> 0]

\* enqueue_document 44-57, called by the pool workers, which are joined
\* before the batch writer is destroyed
BwEnqueue ==
    /\ bdtor = "alive"
    /\ benq < MaxEnqueued
    /\ benq' = benq + 1
    /\ bqueue' = Append(bqueue, benq + 1)
    /\ UNCHANGED << bmutex, bdue, bstop, bpc, bbatch, fpc, fbatch, bdtor,
                    bhanded, bstats >>

\* the steady clock passes last_flush_time_ + flush_interval_
BwTick ==
    /\ ~bdue
    /\ bdue' = TRUE
    /\ UNCHANGED << bqueue, benq, bmutex, bstop, bpc, bbatch, fpc, fbatch,
                    bdtor, bhanded, bstats >>

\* flush_batch 131-167: update_indices writes the files; when it returns the
\* counters are raised and last_flush_time_ is set, when it throws the
\* exception is logged
BwFlushBatch(batch, ok) ==
    /\ bhanded' = bhanded \cup SeqToSet(batch)
    /\ IF ok
       THEN /\ bstats' = [documents_indexed |-> bstats.documents_indexed + Len(batch),
                          batches_flushed |-> bstats.batches_flushed + 1,
                          updates |-> bstats.updates + 1]
            /\ bdue' = FALSE
       ELSE /\ bstats' = [bstats EXCEPT !.updates = @ + 1]
            /\ UNCHANGED bdue

\* flush_now 63: lock_guard flush_lock(flush_mutex_); the request threads
\* are done before main destroys the batch writer
BwFlushNowLock(c) ==
    /\ fpc[c] \in Returned
    /\ bdtor = "alive"
    /\ bmutex = NoOwner
    /\ bmutex' = c
    /\ fpc' = [fpc EXCEPT ![c] = "queue_lock"]
    /\ UNCHANGED << bqueue, benq, bdue, bstop, bpc, bbatch, fbatch, bdtor,
                    bhanded, bstats >>

\* the flush_now that goes on to flush_batch with the batch it swapped out
\* of an empty queue
BwFlushNowTakeAny(c) ==
    /\ fpc[c] = "queue_lock"
    /\ fbatch' = [fbatch EXCEPT ![c] = bqueue]
    /\ bqueue' = << >>
    /\ fpc' = [fpc EXCEPT ![c] = "flush"]
    /\ UNCHANGED << benq, bmutex, bdue, bstop, bpc, bbatch, bdtor, bhanded,
                    bstats >>

\* the flush_now that copies the queue into its batch and leaves the queue
\* as it is
BwFlushNowCopy(c) ==
    /\ fpc[c] = "queue_lock"
    /\ IF bqueue = << >>
       THEN /\ bmutex' = NoOwner
            /\ fpc' = [fpc EXCEPT ![c] = "empty"]
            /\ UNCHANGED fbatch
       ELSE /\ fbatch' = [fbatch EXCEPT ![c] = bqueue]
            /\ fpc' = [fpc EXCEPT ![c] = "flush"]
            /\ UNCHANGED bmutex
    /\ UNCHANGED << bqueue, benq, bdue, bstop, bpc, bbatch, bdtor, bhanded, bstats >>

\* flush_now 65-79: return on an empty queue (both locks are released),
\* else swap the whole queue into the local batch
BwFlushNowTake(c) ==
    /\ fpc[c] = "queue_lock"
    /\ IF bqueue = << >>
       THEN /\ bmutex' = NoOwner
            /\ fpc' = [fpc EXCEPT ![c] = "empty"]
            /\ UNCHANGED << bqueue, fbatch >>
       ELSE /\ fbatch' = [fbatch EXCEPT ![c] = bqueue]
            /\ bqueue' = << >>
            /\ fpc' = [fpc EXCEPT ![c] = "flush"]
            /\ UNCHANGED bmutex
    /\ UNCHANGED << benq, bdue, bstop, bpc, bbatch, bdtor, bhanded, bstats >>

\* flush_now 82-84: flush_batch(batch), return
BwFlushNowFlush(c) ==
    /\ fpc[c] = "flush"
    /\ \E ok \in BOOLEAN : BwFlushBatch(fbatch[c], ok)
    /\ fbatch' = [fbatch EXCEPT ![c] = << >>]
    /\ bmutex' = NoOwner
    /\ fpc' = [fpc EXCEPT ![c] = "flushed"]
    /\ UNCHANGED << bqueue, benq, bstop, bpc, bbatch, bdtor >>

\* writer_thread 92: while (!shutdown_)
BwLoopTest ==
    /\ bpc = "test"
    /\ bpc' = IF bstop THEN "exit" ELSE "wait"
    /\ UNCHANGED << bqueue, benq, bmutex, bdue, bstop, bbatch, fpc, fbatch,
                    bdtor, bhanded, bstats >>

\* writer_thread 93-100: the predicate of wait_for under queue_mutex_
BwWaitPred ==
    /\ bpc = "wait"
    /\ bpc' = IF bstop \/ Len(bqueue) >= BatchSize \/ bdue THEN "extract" ELSE "blocked"
    /\ UNCHANGED << bqueue, benq, bmutex, bdue, bstop, bbatch, fpc, fbatch,
                    bdtor, bhanded, bstats >>

\* wait_for 95: a notification or a spurious wakeup has the predicate
\* evaluated again; when the interval has run out wait_for returns
BwWake ==
    /\ bpc = "blocked"
    /\ \E timeout \in BOOLEAN : bpc' = IF timeout THEN "extract" ELSE "wait"
    /\ UNCHANGED << bqueue, benq, bmutex, bdue, bstop, bbatch, fpc, fbatch,
                    bdtor, bhanded, bstats >>

\* the extraction that waits for a full batch whatever the time
BwExtractFull ==
    /\ bpc = "extract"
    /\ IF Len(bqueue) >= BatchSize
       THEN /\ bbatch' = SubSeq(bqueue, 1, BatchSize)
            /\ bqueue' = SubSeq(bqueue, BatchSize + 1, Len(bqueue))
            /\ bpc' = "flush_lock"
       ELSE /\ bpc' = "test"
            /\ UNCHANGED << bqueue, bbatch >>
    /\ UNCHANGED << benq, bmutex, bdue, bstop, fpc, fbatch, bdtor, bhanded,
                    bstats >>

\* the extraction that takes a batch from every queue that is not empty
BwExtractAlways ==
    /\ bpc = "extract"
    /\ IF bqueue # << >>
       THEN LET take == Min(Len(bqueue), BatchSize)
            IN /\ bbatch' = SubSeq(bqueue, 1, take)
               /\ bqueue' = SubSeq(bqueue, take + 1, Len(bqueue))
               /\ bpc' = "flush_lock"
       ELSE /\ bpc' = "test"
            /\ UNCHANGED << bqueue, bbatch >>
    /\ UNCHANGED << benq, bmutex, bdue, bstop, fpc, fbatch, bdtor, bhanded,
                    bstats >>

\* writer_thread 102-123: skip an empty queue; when the queue holds
\* batch_size_ documents or the interval has elapsed, move the first
\* min(size, batch_size_) documents to the batch; unlock; an empty batch
\* goes back to the loop test
BwExtract ==
    /\ bpc = "extract"
    /\ IF bqueue # << >> /\ (Len(bqueue) >= BatchSize \/ bdue)
       THEN LET take == Min(Len(bqueue), BatchSize)
            IN /\ bbatch' = SubSeq(bqueue, 1, take)
               /\ bqueue' = SubSeq(bqueue, take + 1, Len(bqueue))
               /\ bpc' = "flush_lock"
       ELSE /\ bpc' = "test"
            /\ UNCHANGED << bqueue, bbatch >>
    /\ UNCHANGED << benq, bmutex, bdue, bstop, fpc, fbatch, bdtor, bhanded,
                    bstats >>

\* the writer thread going on to flush_batch without flush_mutex_
BwFlushNoLock ==
    /\ bpc = "flush_lock"
    /\ bpc' = "flush"
    /\ UNCHANGED << bqueue, benq, bmutex, bdue, bstop, bbatch, fpc, fbatch,
                    bdtor, bhanded, bstats >>

\* writer_thread 125: lock_guard flush_lock(flush_mutex_)
BwFlushLock ==
    /\ bpc = "flush_lock"
    /\ bmutex = NoOwner
    /\ bmutex' = WriterId
    /\ bpc' = "flush"
    /\ UNCHANGED << bqueue, benq, bdue, bstop, bbatch, fpc, fbatch, bdtor,
                    bhanded, bstats >>

\* writer_thread 126-127: flush_batch(batch), release flush_mutex_
BwFlush ==
    /\ bpc = "flush"
    /\ \E ok \in BOOLEAN : BwFlushBatch(bbatch, ok)
    /\ bbatch' = << >>
    /\ bmutex' = IF bmutex = WriterId THEN NoOwner ELSE bmutex
    /\ bpc' = "test"
    /\ UNCHANGED << bqueue, benq, bstop, fpc, fbatch, bdtor >>

\* ~BatchIndexWriter 29-30: shutdown_ = true, notify_all.  main destroys
\* the batch writer after svr.listen has returned and the pool is gone.
BwShutdown ==
    /\ bdtor = "alive"
    /\ \A c \in Callers : fpc[c] \in Returned
    /\ bstop' = TRUE
    /\ bdtor' = "join"
    /\ UNCHANGED << bqueue, benq, bmutex, bdue, bpc, bbatch, fpc, fbatch,
                    bhanded, bstats >>

\* ~BatchIndexWriter 31-33: writer_thread_.join()
BwJoin ==
    /\ bdtor = "join"
    /\ bpc = "exit"
    /\ bdtor' = "drain"
    /\ UNCHANGED << bqueue, benq, bmutex, bdue, bstop, bpc, bbatch, fpc,
                    fbatch, bhanded, bstats >>

\* the destructor that returns after the join
BwReturn ==
    /\ bdtor = "drain"
    /\ bdtor' = "done"
    /\ UNCHANGED << bqueue, benq, bmutex, bdue, bstop, bpc, bbatch, fpc,
                    fbatch, bhanded, bstats >>

\* ~BatchIndexWriter 36-41: flush_batch(queue_) under queue_mutex_ when the
\* queue is not empty ("drained"); the queue is destroyed with the object
BwDrain ==
    /\ bdtor = "drain"
    /\ IF bqueue # << >>
       THEN /\ \E ok \in BOOLEAN : BwFlushBatch(bqueue, ok)
            /\ bdtor' = "drained"
       ELSE /\ UNCHANGED << bhanded, bstats, bdue >>
            /\ bdtor' = "done"
    /\ bqueue' = << >>
    /\ UNCHANGED << benq, bmutex, bstop, bpc, bbatch, fpc, fbatch >>

BwNext ==
    \/ BwEnqueue
    \/ BwTick
    \/ \E c \in Callers : BwFlushNowLock(c)
    \/ \E c \in Callers : BwFlushNowTake(c)
    \/ \E c \in Callers : BwFlushNowFlush(c)
    \/ BwLoopTest
    \/ BwWaitPred
    \/ BwWake
    \/ BwExtract
    \/ BwFlushLock
    \/ BwFlush
    \/ BwShutdown
    \/ BwJoin
    \/ BwDrain

(***************************************************************************)
(* Doc-stats machine (SpecStats): the server is started, the batch writer  *)
(* appends documents to the forward index while it runs, the server is     *)
(* stopped and started again.                                              *)
(***************************************************************************)
StatsInit ==
    /\ statsForward = << >>
    /\ statsBinFile = EmptyMap
    /\ statsCache = << >>

\* SearchService::SearchService (part_022 70) with load_document_stats
\* (218-251): the binary cache is taken when is_cache_valid (87-98: both
\* files open and the cache file is not empty) and load_doc_stats_from_cache
\* (100-137) finds documents in it; else build_doc_stats_cache (139-216)
\* scans the forward index and writes the cache file
StatsStartup ==
    /\ statsCache = << >>
    /\ statsCache' = << LoadedStats(statsBinFile, statsForward) >>
    /\ statsBinFile' = LoadedStats(statsBinFile, statsForward)
    /\ UNCHANGED statsForward

\* update_indices step 2 (BatchIndexWriter.cpp 181-215) for one document of
\* the running server: a line is appended to the forward index; neither
\* doc_stats.bin nor doc_stats_cache_ is touched
StatsAppend(tokens) ==
    /\ statsCache # << >>
    /\ Len(statsForward) < MaxStatDocs
    /\ statsForward' = Append(statsForward,
                              ForwardLine(Len(statsForward),
                                          build_doc_stats(SortedSeq(Words), tokens)))
    /\ UNCHANGED << statsBinFile, statsCache >>

\* the server is stopped (main.cpp 436-455): the engine and its cache go
StatsShutdown ==
    /\ statsCache # << >>
    /\ statsCache' = << >>
    /\ UNCHANGED << statsForward, statsBinFile >>

StatsNext ==
    \/ StatsStartup
    \/ \E tokens \in SeqsOf(Words, 1, MaxTokens) : StatsAppend(tokens)
    \/ StatsShutdown

(***************************************************************************)
(* Locking machine (SpecLocks): submit_pdf, get_stats and flush_now on the *)
(* request threads, worker_thread with process_pdf and enqueue_document on *)
(* the pool workers, and writer_thread, with every std::mutex as a         *)
(* variable.  A lock_guard or unique_lock waits until the mutex is free;   *)
(* a condition variable wait releases the mutex while it blocks.           *)
(***************************************************************************)
BwMutexes == {"flush_mutex_", "queue_mutex_", "stats_mutex_"}

PoolMutexes == {"pool.queue_mutex_", "pool.stats_mutex_"}

LockWriterId == NumHandlers + NumWorkers + 1

LockThreads == Handlers \cup Workers \cup {LockWriterId}

LockInit ==
    /\ lockOwner = [m \in BwMutexes \cup PoolMutexes |-> NoOwner]
    /\ lockPc = [t \in LockThreads |->
                    IF t \in Handlers THEN "idle"
                    ELSE IF t \in Workers THEN "pool_q" ELSE "wt_q"]
    /\ lockLoad = [tasks |-> 0, docs |-> 0, submitted |-> 0]

\* std::lock_guard / std::unique_lock constructor: thread t takes mutex m
\* when it is free and goes on at position next
Acquire(t, m, next) ==
    /\ lockOwner[m] = NoOwner
    /\ lockOwner' = [lockOwner EXCEPT ![m] = t]
    /\ lockPc' = [lockPc EXCEPT ![t] = next]

\* the end of the scope of the guards of the mutexes ms, or unlock()
Release(t, ms, next) ==
    /\ lockOwner' = [m \in DOMAIN lockOwner |-> IF m \in ms THEN NoOwner ELSE lockOwner[m]]
    /\ lockPc' = [lockPc EXCEPT ![t] = next]

\* submit_pdf 37-58: queue_mutex_ of the pool, push, stats_mutex_ of the
\* pool inside it, both released at the end of the block
LkSubmitPdf(h) ==
    \/ /\ lockPc[h] = "idle"
       /\ lockLoad.submitted < MaxTasks
       /\ Acquire(h, "pool.queue_mutex_", "submit_s")
       /\ lockLoad' = [lockLoad EXCEPT !.tasks = @ + 1, !.submitted = @ + 1]
    \/ /\ lockPc[h] = "submit_s"
       /\ Acquire(h, "pool.stats_mutex_", "submit_u")
       /\ UNCHANGED lockLoad
    \/ /\ lockPc[h] = "submit_u"
       /\ Release(h, PoolMutexes, "idle")
       /\ UNCHANGED lockLoad

\* the /stats handler (main.cpp 407-411): get_stats of the pool
\* (PDFProcessingPool.cpp 60-63), then get_stats of the batch writer
\* (BatchIndexWriter.cpp 86-89)
LkGetStats(h) ==
    /\ \/ /\ lockPc[h] = "idle"
          /\ Acquire(h, "pool.stats_mutex_", "stats_pu")
       \/ /\ lockPc[h] = "stats_pu"
          /\ Release(h, {"pool.stats_mutex_"}, "stats_b")
       \/ /\ lockPc[h] = "stats_b"
          /\ Acquire(h, "stats_mutex_", "stats_bu")
       \/ /\ lockPc[h] = "stats_bu"
          /\ Release(h, {"stats_mutex_"}, "idle")
    /\ UNCHANGED lockLoad

\* flush_now 59-84 with flush_batch 131-167: flush_mutex_, then queue_mutex_
\* (return on an empty queue), the swap, stats_mutex_ inside, unlock of the
\* queue, flush_batch under flush_mutex_ alone, which takes stats_mutex_
\* when update_indices has returned and not when it has thrown
LkFlushNow(h) ==
    \/ /\ lockPc[h] = "idle"
       /\ Acquire(h, "flush_mutex_", "flush_q")
       /\ UNCHANGED lockLoad
    \/ /\ lockPc[h] = "flush_q"
       /\ Acquire(h, "queue_mutex_", "flush_test")
       /\ UNCHANGED lockLoad
    \/ /\ lockPc[h] = "flush_test"
       /\ IF lockLoad.docs = 0
          THEN /\ Release(h, {"queue_mutex_", "flush_mutex_"}, "idle")
               /\ UNCHANGED lockLoad
          ELSE /\ lockLoad' = [lockLoad EXCEPT !.docs = 0]
               /\ lockPc' = [lockPc EXCEPT ![h] = "flush_s"]
               /\ UNCHANGED lockOwner
    \/ /\ lockPc[h] = "flush_s"
       /\ Acquire(h, "stats_mutex_", "flush_u")
       /\ UNCHANGED lockLoad
    \/ /\ lockPc[h] = "flush_u"
       /\ Release(h, {"stats_mutex_", "queue_mutex_"}, "flush_batch")
       /\ UNCHANGED lockLoad
    \/ /\ lockPc[h] = "flush_batch"
       /\ \/ Acquire(h, "stats_mutex_", "flush_done")
          \/ Release(h, {"flush_mutex_"}, "idle")
       /\ UNCHANGED lockLoad
    \/ /\ lockPc[h] = "flush_done"
       /\ Release(h, {"stats_mutex_", "flush_mutex_"}, "idle")
       /\ UNCHANGED lockLoad

\* the enqueue_document that takes stats_mutex_ before queue_mutex_
LkEnqueueStatsFirst(w) ==
    \/ /\ lockPc[w] = "enq_q"
       /\ Acquire(w, "stats_mutex_", "enq_s")
       /\ UNCHANGED lockLoad
    \/ /\ lockPc[w] = "enq_s"
       /\ Acquire(w, "queue_mutex_", "enq_u")
       /\ lockLoad' = [lockLoad EXCEPT !.docs = @ + 1]
    \/ /\ lockPc[w] = "enq_u"
       /\ Release(w, {"stats_mutex_", "queue_mutex_"}, "done_s")
       /\ UNCHANGED lockLoad

\* enqueue_document 44-57, called from process_pdf 124: queue_mutex_,
\* push_back, stats_mutex_ inside, both released at the end of the block
LkEnqueueDocument(w) ==
    \/ /\ lockPc[w] = "enq_q"
       /\ Acquire(w, "queue_mutex_", "enq_s")
       /\ lockLoad' = [lockLoad EXCEPT !.docs = @ + 1]
    \/ /\ lockPc[w] = "enq_s"
       /\ Acquire(w, "stats_mutex_", "enq_u")
       /\ UNCHANGED lockLoad
    \/ /\ lockPc[w] = "enq_u"
       /\ Release(w, {"stats_mutex_", "queue_mutex_"}, "done_s")
       /\ UNCHANGED lockLoad

\* worker_thread 65-98 and process_pdf 100-136 around enqueue_document: the
\* pool's queue_mutex_, the wait on queue_cv_ (the mutex is released while
\* the thread blocks, and a notification or a spurious wakeup takes it
\* again), pop, the pool's stats_mutex_ inside, lock.unlock(); then the
\* tokenizer, which fails or succeeds, and the pool's stats_mutex_ for the
\* counter of failed or completed tasks
LkWorkerThread(w) ==
    \/ /\ lockPc[w] = "pool_q"
       /\ Acquire(w, "pool.queue_mutex_", "pool_pred")
       /\ UNCHANGED lockLoad
    \/ /\ lockPc[w] = "pool_pred"
       /\ IF lockLoad.tasks = 0
          THEN /\ Release(w, {"pool.queue_mutex_"}, "pool_wait")
               /\ UNCHANGED lockLoad
          ELSE /\ lockLoad' = [lockLoad EXCEPT !.tasks = @ - 1]
               /\ lockPc' = [lockPc EXCEPT ![w] = "pool_s"]
               /\ UNCHANGED lockOwner
    \/ /\ lockPc[w] = "pool_wait"
       /\ Acquire(w, "pool.queue_mutex_", "pool_pred")
       /\ UNCHANGED lockLoad
    \/ /\ lockPc[w] = "pool_s"
       /\ Acquire(w, "pool.stats_mutex_", "pool_u")
       /\ UNCHANGED lockLoad
    \/ /\ lockPc[w] = "pool_u"
       /\ \E ok \in BOOLEAN :
             Release(w, PoolMutexes, IF ok THEN "enq_q" ELSE "done_s")
       /\ UNCHANGED lockLoad
    \/ /\ lockPc[w] = "done_s"
       /\ Acquire(w, "pool.stats_mutex_", "done_u")
       /\ UNCHANGED lockLoad
    \/ /\ lockPc[w] = "done_u"
       /\ Release(w, {"pool.stats_mutex_"}, "pool_q")
       /\ UNCHANGED lockLoad

\* writer_thread 91-129 with flush_batch 131-167: queue_mutex_, wait_for
\* (released while blocked; it returns on a true predicate or when the
\* interval has run out), continue on an empty queue, the extraction with
\* stats_mutex_ inside when the queue is full enough or the interval has
\* elapsed, lock.unlock(); for a batch that is not empty flush_mutex_ and
\* flush_batch, which takes stats_mutex_ unless update_indices has thrown
LkWriterThread ==
    LET t == LockWriterId
    IN \/ /\ lockPc[t] \in {"wt_q", "wt_wait"}
          /\ Acquire(t, "queue_mutex_", "wt_pred")
          /\ UNCHANGED lockLoad
       \/ /\ lockPc[t] = "wt_pred"
          /\ \/ Release(t, {"queue_mutex_"}, "wt_wait")
             \/ /\ lockPc' = [lockPc EXCEPT ![t] = "wt_take"]
                /\ UNCHANGED lockOwner
          /\ UNCHANGED lockLoad
       \/ /\ lockPc[t] = "wt_take"
          /\ \/ /\ Release(t, {"queue_mutex_"}, "wt_q")
                /\ UNCHANGED lockLoad
             \/ /\ lockLoad.docs > 0
                /\ lockLoad' = [lockLoad EXCEPT !.docs = @ - Min(@, BatchSize)]
                /\ lockPc' = [lockPc EXCEPT ![t] = "wt_s"]
                /\ UNCHANGED lockOwner
       \/ /\ lockPc[t] = "wt_s"
          /\ Acquire(t, "stats_mutex_", "wt_u")
          /\ UNCHANGED lockLoad
       \/ /\ lockPc[t] = "wt_u"
          /\ Release(t, {"stats_mutex_", "queue_mutex_"}, "wt_f")
          /\ UNCHANGED lockLoad
       \/ /\ lockPc[t] = "wt_f"
          /\ Acquire(t, "flush_mutex_", "wt_batch")
          /\ UNCHANGED lockLoad
       \/ /\ lockPc[t] = "wt_batch"
          /\ \/ Acquire(t, "stats_mutex_", "wt_done")
             \/ Release(t, {"flush_mutex_"}, "wt_q")
          /\ UNCHANGED lockLoad
       \/ /\ lockPc[t] = "wt_done"
          /\ Release(t, {"stats_mutex_", "flush_mutex_"}, "wt_q")
          /\ UNCHANGED lockLoad

LockNext ==
    \/ \E h \in Handlers : LkSubmitPdf(h)
    \/ \E h \in Handlers : LkGetStats(h)
    \/ \E h \in Handlers : LkFlushNow(h)
    \/ \E w \in Workers : LkWorkerThread(w)
    \/ \E w \in Workers : LkEnqueueDocument(w)
    \/ LkWriterThread

\* the index machine at rest, for the specifications of the other machines
IndexIdle ==
    /\ lexFile = << >>
    /\ fwdFile = << >>
    /\ deltaFile = EmptyMap
    /\ barrelFiles = EmptyMap
    /\ metaFile = {}
    /\ urlFile = {}
    /\ corpusFile = << >>
    /\ statsBin = EmptyMap
    /\ lexicon_ = << >>
    /\ metadata_ = {}
    /\ url_mapper_ = {}
    /\ lexicon_trie_ = << >>
    /\ delta_index_ = EmptyMap
    /\ barrel_cache_ = EmptyMap
    /\ document_metadata_ = {}
    /\ doc_url_mapper = {}
    /\ doc_stats_cache_ = EmptyMap
    /\ lastOp = "init"
    /\ lastFail = "none"
    /\ nUploads = 0
    /\ lastQuery = << >>
    /\ lastResult = << >>

\* the pipeline at rest
PipeIdle == PipeInit

\* the ranking machine at rest
RankIdle == RankInit

\* the prefix-tree machine at rest
TrieIdle == TrieInit

\* the flush and reload machine at rest
ReloadIdle == ReloadInit

\* the lexicon machine at rest
LexIdle == LexInit

\* the shutdown machine at rest
ShutdownIdle == ShutdownInit

\* the startup machine at rest: no file, engine not constructed
StartIdle ==
    /\ sfLexicon = "missing"
    /\ sfMetadata = "missing"
    /\ sfUrlMap = "missing"
    /\ sfBarrel = "missing"
    /\ sfDelta = "missing"
    /\ sfDocStats = "missing"
    /\ engine = "off"
    /\ lexLoaded = FALSE
    /\ deltaLoaded = FALSE
    /\ barrelCached = FALSE
    /\ callOutcome = "none"

\* the barrel cache machine at rest: no shard cached, no search
CacheIdle ==
    /\ cachedBarrels = {}
    /\ spc = [s \in Searchers |-> "idle"]
    /\ sbarrel = [s \in Searchers |-> -1]
    /\ sresult = [s \in Searchers |-> "none"]
    /\ evictions = 0
    /\ loadOrder = << >>

\* the batch writer machine at rest
WriterIdle == BwInit

\* the doc-stats machine at rest
StatsIdle == StatsInit

\* the locking machine at rest, for the specifications of the other machines
LockIdle ==
    /\ lockOwner = << >>
    /\ lockPc = << >>
    /\ lockLoad = << >>

(***************************************************************************)
(* Specifications: one per machine, the other machines stay at rest.       *)
(***************************************************************************)
Init ==
    /\ PipeInit
    /\ IndexIdle
    /\ RankIdle
    /\ TrieIdle
    /\ ReloadIdle
    /\ LexIdle
    /\ ShutdownIdle
    /\ StartIdle
    /\ CacheIdle
    /\ WriterIdle
    /\ StatsIdle
    /\ LockIdle

Next ==
    /\ PipeNext
    /\ UNCHANGED << indexVars,
                    rankVars,
                    trieVars,
                    reloadVars,
                    lexVars,
                    shutdownVars,
                    startVars,
                    cacheVars,
                    writerVars,
                    statsVars,
                    lockVars >>

Spec == Init /\ [][Next]_vars

InitIndex ==
    /\ IndexInit
    /\ PipeIdle
    /\ RankIdle
    /\ TrieIdle
    /\ ReloadIdle
    /\ LexIdle
    /\ ShutdownIdle
    /\ StartIdle
    /\ CacheIdle
    /\ WriterIdle
    /\ StatsIdle
    /\ LockIdle

NextIndex ==
    /\ IndexNext
    /\ UNCHANGED << pipeVars,
                    rankVars,
                    trieVars,
                    reloadVars,
                    lexVars,
                    shutdownVars,
                    startVars,
                    cacheVars,
                    writerVars,
                    statsVars,
                    lockVars >>

SpecIndex == InitIndex /\ [][NextIndex]_vars

InitRank ==
    /\ RankInit
    /\ PipeIdle
    /\ IndexIdle
    /\ TrieIdle
    /\ ReloadIdle
    /\ LexIdle
    /\ ShutdownIdle
    /\ StartIdle
    /\ CacheIdle
    /\ WriterIdle
    /\ StatsIdle
    /\ LockIdle

NextRank ==
    /\ RankNext
    /\ UNCHANGED << pipeVars,
                    indexVars,
                    trieVars,
                    reloadVars,
                    lexVars,
                    shutdownVars,
                    startVars,
                    cacheVars,
                    writerVars,
                    statsVars,
                    lockVars >>

SpecRank == InitRank /\ [][NextRank]_vars

InitTrie ==
    /\ TrieInit
    /\ PipeIdle
    /\ IndexIdle
    /\ RankIdle
    /\ ReloadIdle
    /\ LexIdle
    /\ ShutdownIdle
    /\ StartIdle
    /\ CacheIdle
    /\ WriterIdle
    /\ StatsIdle
    /\ LockIdle

NextTrie ==
    /\ TrieNext
    /\ UNCHANGED << pipeVars,
                    indexVars,
                    rankVars,
                    reloadVars,
                    lexVars,
                    shutdownVars,
                    startVars,
                    cacheVars,
                    writerVars,
                    statsVars,
                    lockVars >>

SpecTrie == InitTrie /\ [][NextTrie]_vars

InitReload ==
    /\ ReloadInit
    /\ PipeIdle
    /\ IndexIdle
    /\ RankIdle
    /\ TrieIdle
    /\ LexIdle
    /\ ShutdownIdle
    /\ StartIdle
    /\ CacheIdle
    /\ WriterIdle
    /\ StatsIdle
    /\ LockIdle

NextReload ==
    /\ ReloadNext
    /\ UNCHANGED << pipeVars,
                    indexVars,
                    rankVars,
                    trieVars,
                    lexVars,
                    shutdownVars,
                    startVars,
                    cacheVars,
                    writerVars,
                    statsVars,
                    lockVars >>

SpecReload == InitReload /\ [][NextReload]_vars

InitLex ==
    /\ LexInit
    /\ PipeIdle
    /\ IndexIdle
    /\ RankIdle
    /\ TrieIdle
    /\ ReloadIdle
    /\ ShutdownIdle
    /\ StartIdle
    /\ CacheIdle
    /\ WriterIdle
    /\ StatsIdle
    /\ LockIdle

NextLex ==
    /\ LexNext
    /\ UNCHANGED << pipeVars,
                    indexVars,
                    rankVars,
                    trieVars,
                    reloadVars,
                    shutdownVars,
                    startVars,
                    cacheVars,
                    writerVars,
                    statsVars,
                    lockVars >>

SpecLex == InitLex /\ [][NextLex]_vars

InitShutdown ==
    /\ ShutdownInit
    /\ PipeIdle
    /\ IndexIdle
    /\ RankIdle
    /\ TrieIdle
    /\ ReloadIdle
    /\ LexIdle
    /\ StartIdle
    /\ CacheIdle
    /\ WriterIdle
    /\ StatsIdle
    /\ LockIdle

NextShutdown ==
    /\ ShutdownNext
    /\ UNCHANGED << pipeVars,
                    indexVars,
                    rankVars,
                    trieVars,
                    reloadVars,
                    lexVars,
                    startVars,
                    cacheVars,
                    writerVars,
                    statsVars,
                    lockVars >>

SpecShutdown == InitShutdown /\ [][NextShutdown]_vars

\* the scheduler runs every thread that can take a step, and the flush interval
\* of wait_for runs out: weak fairness of each thread's steps
SpecShutdownFair ==
    /\ SpecShutdown
    /\ \A w \in Workers : WF_vars(PoolWorker(w) /\ NextShutdown)
    /\ WF_vars(Destructors /\ NextShutdown)
    /\ WF_vars(WriterThread /\ NextShutdown)

InitStart ==
    /\ StartInit
    /\ PipeIdle
    /\ IndexIdle
    /\ RankIdle
    /\ TrieIdle
    /\ ReloadIdle
    /\ LexIdle
    /\ ShutdownIdle
    /\ CacheIdle
    /\ WriterIdle
    /\ StatsIdle
    /\ LockIdle

NextStart ==
    /\ StartNext
    /\ UNCHANGED << pipeVars,
                    indexVars,
                    rankVars,
                    trieVars,
                    reloadVars,
                    lexVars,
                    shutdownVars,
                    cacheVars,
                    writerVars,
                    statsVars,
                    lockVars >>

SpecStart == InitStart /\ [][NextStart]_vars

InitCache ==
    /\ CacheInit
    /\ PipeIdle
    /\ IndexIdle
    /\ RankIdle
    /\ TrieIdle
    /\ ReloadIdle
    /\ LexIdle
    /\ ShutdownIdle
    /\ StartIdle
    /\ WriterIdle
    /\ StatsIdle
    /\ LockIdle

NextCache ==
    /\ CacheNext
    /\ UNCHANGED << pipeVars,
                    indexVars,
                    rankVars,
                    trieVars,
                    reloadVars,
                    lexVars,
                    shutdownVars,
                    startVars,
                    writerVars,
                    statsVars,
                    lockVars >>

SpecCache == InitCache /\ [][NextCache]_vars

InitWriter ==
    /\ BwInit
    /\ PipeIdle
    /\ IndexIdle
    /\ RankIdle
    /\ TrieIdle
    /\ ReloadIdle
    /\ LexIdle
    /\ ShutdownIdle
    /\ StartIdle
    /\ CacheIdle
    /\ StatsIdle
    /\ LockIdle

NextWriter ==
    /\ BwNext
    /\ UNCHANGED << pipeVars,
                    indexVars,
                    rankVars,
                    trieVars,
                    reloadVars,
                    lexVars,
                    shutdownVars,
                    startVars,
                    cacheVars,
                    statsVars,
                    lockVars >>

SpecWriter == InitWriter /\ [][NextWriter]_vars

\* the scheduler runs every thread that can take a step, a thread that waits
\* for flush_mutex_ gets it when it is released again and again, the clock
\* goes on and the interval of wait_for runs out; calls of flush_now and the
\* shutdown are left to the environment
SpecWriterFair ==
    /\ SpecWriter
    /\ WF_vars(BwTick /\ NextWriter)
    /\ WF_vars((BwLoopTest \/ BwWaitPred \/ BwWake \/ BwExtract \/ BwFlush) /\ NextWriter)
    /\ SF_vars(BwFlushLock /\ NextWriter)
    /\ \A c \in Callers : WF_vars((BwFlushNowTake(c) \/ BwFlushNowFlush(c)) /\ NextWriter)
    /\ WF_vars((BwJoin \/ BwDrain) /\ NextWriter)

InitStats ==
    /\ StatsInit
    /\ PipeIdle
    /\ IndexIdle
    /\ RankIdle
    /\ TrieIdle
    /\ ReloadIdle
    /\ LexIdle
    /\ ShutdownIdle
    /\ StartIdle
    /\ CacheIdle
    /\ WriterIdle
    /\ LockIdle

NextStats ==
    /\ StatsNext
    /\ UNCHANGED << pipeVars,
                    indexVars,
                    rankVars,
                    trieVars,
                    reloadVars,
                    lexVars,
                    shutdownVars,
                    startVars,
                    cacheVars,
                    writerVars,
                    lockVars >>

SpecStats == InitStats /\ [][NextStats]_vars

InitLocks ==
    /\ LockInit
    /\ PipeIdle
    /\ IndexIdle
    /\ RankIdle
    /\ TrieIdle
    /\ ReloadIdle
    /\ LexIdle
    /\ ShutdownIdle
    /\ StartIdle
    /\ CacheIdle
    /\ WriterIdle
    /\ StatsIdle

NextLocks ==
    /\ LockNext
    /\ UNCHANGED << pipeVars,
                    indexVars,
                    rankVars,
                    trieVars,
                    reloadVars,
                    lexVars,
                    shutdownVars,
                    startVars,
                    cacheVars,
                    writerVars,
                    statsVars >>

SpecLocks == InitLocks /\ [][NextLocks]_vars

(***************************************************************************)
(* Claims on the ingestion pipeline.                                       *)
(***************************************************************************)
\* C1: when flush_now() returns, every document enqueued in the batch writer
\* before flush_now() was called has been handed to a flush_batch that has
\* completed, in every interleaving with the writer thread.
C1_FlushNowCoversEnqueued ==
    \A h \in Handlers :
        hpc[h] \in {"reload", "done"} => hcalled[h] \subseteq (written \cup failedFlush)

\* C6: doc ids are assigned strictly increasing: every submitted document gets
\* a doc id greater than every doc id assigned before it.
C6_DocIdsStrictlyIncreasing ==
    \A i, j \in 1..Len(assignLog) : i < j => assignLog[i] < assignLog[j]

\* C14: when a batch flush fails, the result handle of every document of the
\* batch carries the failure: none of them is reported to its submitter as
\* processed with its doc id.
C14_FlushFailureSurfaced ==
    \A t \in failedFlush : future[t] # "ready"

\* C15: when the extractor fails for one task, the failure stays with that
\* task: every other task whose own extractor run wrote its output goes on
\* to be enqueued, none of them is failed for an output file that is missing.
C15_ExtractorFailureIsolated ==
    (\E u \in 1..Len(tasks) : future[u] = "failed") =>
        \A t \in 1..Len(tasks) : future[t] # "unreadable"

\* the result handle of task t carries a failure
CarriesFailure(t) == future[t] \in {"failed", "unreadable"}

\* C32: in the upload response, a document whose processing failed (its
\* result handle carries a failure) is counted in failedCount, is not counted
\* in uploadedCount and is not listed in newDocIds.
C32_FailedNotReported ==
    \A h \in Handlers :
        hpc[h] = "done" =>
            LET failed == { i \in 1..Len(hfutures[h]) : CarriesFailure(hfutures[h][i]) }
            IN /\ failed_count(h) >= Cardinality(failed)
               /\ uploaded_count(h) <= Len(hfutures[h]) - Cardinality(failed)
               /\ \A i \in failed : \A x \in DOMAIN newDocIds(h) :
                     newDocIds(h)[x] # tasks[hfutures[h][i]].doc_id

\* the tasks the batch writer holds or has held in a batch: in the local
\* batch of the writer thread or of a flush_now call, or passed to flush_batch
InBatch ==
    SeqToSet(wbatch) \cup UNION { SeqToSet(hbatch[h]) : h \in Handlers }
                     \cup written \cup failedFlush

\* C37: a task's result handle is resolved with its doc_id only after the
\* document has been enqueued in the batch writer; once all result handles
\* of an upload are ready, every successfully processed document of that
\* upload is in the pending queue or has been taken into a batch.
C37_ReadyMeansEnqueued ==
    /\ \A t \in 1..Len(tasks) : future[t] = "ready" => t \in enqueued
    /\ \A h \in Handlers :
          (hfiles[h] = 0 /\ \A i \in 1..Len(hfutures[h]) : future[hfutures[h][i]] # "pending") =>
              \A i \in 1..Len(hfutures[h]) :
                  future[hfutures[h][i]] = "ready" =>
                      hfutures[h][i] \in SeqToSet(queue_) \cup InBatch

\* an upload of two files has all its handles resolved, one with a failure;
\* the document of the other is no longer in the queue: the writer thread
\* has taken it into its batch and has not flushed it yet
C37_Witness ==
    \E h \in Handlers :
        /\ hpc[h] = "flush_lock"
        /\ Len(hfutures[h]) = 2
        /\ \E i, j \in 1..2 :
              /\ future[hfutures[h][i]] = "ready"
              /\ CarriesFailure(hfutures[h][j])
              /\ hfutures[h][i] \in SeqToSet(wbatch)
              /\ queue_ = << >>

(***************************************************************************)
(* Claims on the index machine.                                            *)
(***************************************************************************)
\* C2: when an I/O step of a batch flush fails, every persisted file
\* (lexicon, forward index, delta, metadata, URL map, corpus file) has
\* exactly its pre-batch contents after the flush.
C2_FailedFlushLeavesFiles ==
    [][(lastOp' = "upload" /\ lastFail' # "none") => Files' = Files]_vars

\* the posting lists of term t hold a posting of document d
HasPosting(map, t, d) ==
    t \in DOMAIN map /\ \E x \in 1..Len(map[t]) : map[t][x].doc_id = d

\* C3: for every (term id t, doc_id) pair a posting exists in at most one of
\* the main barrel t mod N and the delta.
C3_NoDuplicateAcrossTiers ==
    \A t \in DOMAIN deltaFile :
        \A x \in 1..Len(deltaFile[t]) :
            ~HasPosting(BarrelFile(barrelFiles, get_barrel_id(t)), t, deltaFile[t][x].doc_id)

\* C4: after a merge the delta file and the in-memory delta map are empty,
\* and every query returns the same documents with the same scores as
\* immediately before the merge.
C4_MergePreservesSearch ==
    [][lastOp' = "merge" =>
          /\ DOMAIN deltaFile' = {}
          /\ DOMAIN delta_index_' = {}
          /\ \A q \in Queries : FinalResults(q)' = FinalResults(q)]_vars

\* C5: every document a search returns has a posting, in the main barrels or
\* the delta, for every recognized term of the query.
C5_ResultsHoldEveryTerm ==
    lastOp = "search" =>
        \A x \in 1..Len(lastResult) :
            \A i \in 1..Len(lastQuery) :
                LET t == get_word_index(lexicon_trie_, lastQuery[i])
                IN t # -1 =>
                      \/ HasPosting(BarrelFile(barrelFiles, get_barrel_id(t)), t,
                                    lastResult[x].doc_id)
                      \/ HasPosting(deltaFile, t, lastResult[x].doc_id)
                      \/ HasPosting(delta_index_, t, lastResult[x].doc_id)

\* C7: starting from empty indices, after one document of new terms is
\* ingested and flushed, the delta holds a posting of document 0 for the term
\* id of each of its tokens, and a search for any one of the terms returns
\* document 0 with a score above zero.
C7_NewTermsSearchable ==
    [][(Len(lexFile) = 0 /\ lastOp = "init" /\ lastOp' = "upload" /\ lastFail' = "none") =>
          LET tokens == corpusFile'[Len(corpusFile')].body_tokens
          IN \A w \in Words :
                (\E i \in 1..Len(tokens) : tokens[i] = w) =>
                   /\ HasPosting(deltaFile', get_word_index(lexFile', w), 0)
                   /\ \E r \in FinalResults(<< w >>)' : r.doc_id = 0 /\ r.score > 0]_vars

\* C26: a merge appends a delta entry (t, doc_id) to main[t] unless main[t]
\* already holds a posting of that doc_id, in which case it skips the entry:
\* after a merge no posting list of a barrel holds two postings of the same
\* doc_id.
C26_MergeSkipsDuplicates ==
    lastOp = "merge" =>
        \A b \in DOMAIN barrelFiles : \A t \in DOMAIN barrelFiles[b] :
            \A x, y \in 1..Len(barrelFiles[b][t]) :
                x # y => barrelFiles[b][t][x].doc_id # barrelFiles[b][t][y].doc_id

\* C23: merging an empty delta is a no-op on all barrels: a merge that finds
\* no entry in the delta file leaves the contents of every barrel file as
\* they were.
C23_EmptyMergeNoOp ==
    [][(deltaFile = EmptyMap /\ lastOp' = "merge") => barrelFiles' = barrelFiles]_vars

\* a merge has run on barrels that hold postings while no upload has ever
\* written the delta (none got as far as the corpus file): the upload failed
\* on the delta file, the offline build made the barrels from the forward
\* index, and the merge found the delta empty
C23_Witness ==
    /\ lastOp = "merge"
    /\ corpusFile = << >>
    /\ deltaFile = EmptyMap
    /\ \E b \in DOMAIN barrelFiles : \E t \in DOMAIN barrelFiles[b] : barrelFiles[b][t] # << >>

\* C31: after the reload that the upload handler performs following a batch
\* flush, the coordinator's in-memory delta map, metadata map, URL map and
\* doc-stats cache each hold the entries of every document of that batch
\* (the batch is the document of the last forward index line).
C31_ReloadCoversBatch ==
    (lastOp = "upload" /\ lastFail = "none") =>
        LET line == fwdFile[Len(fwdFile)]
        IN /\ \A t \in DOMAIN line.words : HasPosting(delta_index_, t, line.doc_id)
           /\ line.doc_id \in document_metadata_
           /\ line.doc_id \in doc_url_mapper
           /\ line.doc_id \in DOMAIN doc_stats_cache_

\* C33: at startup, if the binary doc-stats cache is stale relative to the
\* forward index (documents were appended to the forward index after the
\* cache file was written), the cache is rebuilt from the forward index:
\* after the startup the engine has stats for every doc_id of the forward
\* index.
C33_StaleCacheRebuilt ==
    [][(statsCache = << >> /\ statsCache' # << >>) =>
          \A i \in 1..Len(statsForward) :
              statsForward[i].doc_id \in DOMAIN statsCache'[1]]_vars

\* the consecutive query index pairs (k, k+1) of query q for which some
\* position of term k+1 in document d is some position of term k plus one
AdjacentPairs(q, d) ==
    { k \in 1..(Len(q) - 1) :
         /\ HasPositions(q, d, k)
         /\ HasPositions(q, d, k + 1)
         /\ \E a \in SeqToSet(doc_positions(q, d, k)) :
               (a + 1) \in SeqToSet(doc_positions(q, d, k + 1)) }

C8_ResultsOrdered ==
    rankOp = "sorted" =>
        \A i, j \in 1..Len(ranked) :
            i < j =>
               /\ ranked[i].score >= ranked[j].score
               /\ ranked[i].score = ranked[j].score =>
                     \/ ranked[i].publication_year > ranked[j].publication_year
                     \/ /\ ranked[i].publication_year = ranked[j].publication_year
                        /\ ranked[i].cited_by_count >= ranked[j].cited_by_count

\* a before b in (score desc, year desc, citations desc) order, or level with it
ExactBeforeOrLevel(a, b) ==
    \/ a.score > b.score
    \/ /\ a.score = b.score
       /\ \/ a.publication_year > b.publication_year
          \/ /\ a.publication_year = b.publication_year
             /\ a.cited_by_count >= b.cited_by_count

\* C9: search returns at most TopK results, and with more than TopK
\* candidates the results are exactly the first TopK of all candidates in
\* (score desc, year desc, citations desc) order.
C9_TopKOfExactOrder ==
    rankOp = "sorted" =>
        /\ Len(ranked) <= TopK
        /\ Cardinality(final_results) > TopK =>
              \E p \in Perms(final_results) :
                  /\ \A i, j \in 1..Len(p) : i < j => ExactBeforeOrLevel(p[i], p[j])
                  /\ Prefix(p, TopK) = ranked

(***************************************************************************)
(* Claims on the prefix-tree machine.                                      *)
(***************************************************************************)
\* word a is a prefix of word b
IsPrefixOf(a, b) == Len(a) <= Len(b) /\ SubSeq(b, 1, Len(a)) = a

\* a comes strictly before b in lexicographic order of the character codes
LexLess(a, b) ==
    \/ Len(a) < Len(b) /\ IsPrefixOf(a, b)
    \/ \E i \in 1..Min(Len(a), Len(b)) :
          /\ a[i] < b[i]
          /\ \A j \in 1..(i - 1) : a[j] = b[j]

\* the case-folded prefix
Folded(prefix) == [i \in 1..Len(prefix) |-> IF prefix[i] \in UpperChars THEN prefix[i] + 32 ELSE prefix[i]]

\* the lexicon terms that begin with the case-folded prefix of the last call
Matching == { lexWords[i] : i \in { j \in 1..Len(lexWords) : IsPrefixOf(Folded(acPrefix), lexWords[j]) } }

\* C10: complete(prefix, k) returns the first min(k, n) lexicon terms in
\* lexicographic order among the n terms that begin with the case-folded
\* prefix: the result is sorted, every element has the prefix as its prefix,
\* its size is at most k, and it is empty when some prefix character has no
\* path in the tree.
C10_AutocompleteFirstK ==
    trieOp = "autocomplete" =>
        /\ Len(acResult) = Min(acK, Cardinality(Matching))
        /\ Len(acResult) <= acK
        /\ \A i \in 1..Len(acResult) : acResult[i] \in Matching
        /\ \A i, j \in 1..Len(acResult) : i < j => LexLess(acResult[i], acResult[j])
        /\ \A w \in Matching :
              (\A i \in 1..Len(acResult) : acResult[i] # w) =>
                  \A i \in 1..Len(acResult) : LexLess(acResult[i], w)
        /\ Folded(acPrefix) \notin DOMAIN trie_ => acResult = << >>

\* an upper-case prefix with more matching terms than k: the cut-off happens
C10_Witness ==
    /\ trieOp = "autocomplete"
    /\ acK = 1
    /\ Len(acPrefix) = 1
    /\ acPrefix[1] \in UpperChars
    /\ Cardinality(Matching) = 2
    /\ Len(acResult) = 1

(***************************************************************************)
(* Claims on the flush and reload machine.                                 *)
(***************************************************************************)
\* C11: a reload that runs while a batch is being flushed loads the state of
\* the files before that batch or after it: when the reload has finished,
\* the delta it loaded holds postings of a batch's document exactly when
\* the metadata it loaded holds that document's record.
C11_ReloadSeesWholeBatches ==
    rpc = "done" =>
        \A d \in 0..(MaxBatches - 1) : (d \in DocsOf(engDelta)) <=> (d \in engMeta)

\* C12: a search that runs during reload_delta_index reads, for its term,
\* the complete list of before the reload or the complete list the reload
\* loads, never an emptied or partly reloaded map.
C12_SearchSeesWholeList ==
    sobs = spre \/ sobs = spost

(***************************************************************************)
(* Claims on the lexicon machine.                                          *)
(***************************************************************************)
\* C13: a lookup that runs while the batch writer extends the lexicon finds
\* the lexicon as it was before the extension or as it is after it, never
\* in between.
C13_LookupSeesWholeExtension ==
    lkSeen = lkPre \/ lkSeen = lkPost

\* the terms of the lexicon: the keys of the map and the entries of the list
LexiconTerms == DOMAIN word_to_index_ \cup SeqToSet(index_to_word_)

\* C19: after a build, after a load and after every online extension,
\* get_word(get_word_index(t)) = t for every term t of the lexicon.
C19_TermOfIndexOf ==
    xpc = "idle" =>
        \A t \in LexiconTerms :
            Lexicon_get_word(index_to_word_, Lexicon_get_word_index(word_to_index_, t)) = t

\* a lexicon of two terms, one from the build ("aba", which the corpus spelt
\* "Aba" or "aba"), one added by an extension after the load
C19_Witness ==
    /\ lexOp = "extend"
    /\ xpc = "idle"
    /\ index_to_word_ = << << 97, 98, 97 >>, << 98, 97, 98 >> >>
    /\ xpre.index_to_word = << << 97, 98, 97 >> >>

\* C20: a term keeps its id for the life of the index: no step after the
\* build removes a term or changes its id, and every term an extension adds
\* gets an id that is at least the size of the lexicon before the extension
\* and that no other term has.
C20_IdsNeverReassigned ==
    [][lexOp # "new" =>
          /\ \A t \in DOMAIN word_to_index_ :
                /\ t \in DOMAIN word_to_index_'
                /\ word_to_index_'[t] = word_to_index_[t]
          /\ \A t \in DOMAIN word_to_index_' \ DOMAIN word_to_index_ :
                /\ word_to_index_'[t] >= Cardinality(DOMAIN xpre.word_to_index)
                /\ \A u \in DOMAIN word_to_index_' \ {t} :
                      word_to_index_'[u] # word_to_index_'[t]]_vars

\* an extension has added a term that sorts before the term the lexicon had
C20_Witness ==
    /\ lexOp = "extend"
    /\ xpc = "idle"
    /\ index_to_word_ = << << 98, 97, 98 >>, << 97, 98, 97 >> >>
    /\ xpre.index_to_word = << << 98, 97, 98 >> >>

(***************************************************************************)
(* Claims on the shutdown machine.                                         *)
(***************************************************************************)
\* C16: when the pool has been shut down and its workers have exited, every
\* task that was submitted has been processed: its result handle holds a
\* doc id or a failure of the processing, none was left in the queue.
C16_ShutdownDrainsQueue ==
    dpc \notin {"alive", "pool_notify", "pool_join"} =>
        \A t \in DOMAIN promise : promise[t] \in {"value", "exception"}

\* C17: once the pool's shutdown flag is set and its condition variable is
\* broadcast, every pool worker leaves its loop and is joined, and then the
\* writer thread is: the two destructors run to their end.
C17_ShutdownTerminates ==
    (dpc = "pool_join") ~> (dpc = "done")

\* the terminal nodes of the engine's prefix tree that bear the term w
TerminalNodes(w) ==
    { p \in DOMAIN engineTrie :
         engineTrie[p].is_end_of_word /\ engineTrie[p].word = w }

\* C21: the prefix tree and the term-to-id map agree at every point after
\* startup, also after a batch has extended the lexicon: every term that has
\* an id in the map has exactly one terminal node in the tree bearing it.
C21_TreeMatchesMap ==
    (lexOp \in {"load", "extend"} /\ xpc = "idle") =>
        \A w \in DOMAIN word_to_index_ : Cardinality(TerminalNodes(w)) = 1

(***************************************************************************)
(* Claims on the barrel cache machine.                                     *)
(***************************************************************************)
\* C22: after every barrel lookup the barrel cache holds at most 30 shards:
\* whenever a thread's get_barrel returns, the cache has at most CacheLimit
\* keys.
C22_CacheBounded ==
    [][\A s \in Searchers :
          (spc[s] \in {"find", "insert"} /\ spc'[s] = "read") =>
              Cardinality(cachedBarrels') <= CacheLimit]_vars

\* C27: accesses of concurrent searches to the barrel cache exclude each
\* other: no thread holds a reference to a cached shard for reading while
\* another thread is about to erase from or insert into the cache, and every
\* read of a shard, also one during which an eviction happens, ends with the
\* correct entries.
C27_CacheAccessExclusive ==
    /\ \A s, t \in Searchers :
          s # t => ~(spc[s] = "read" /\ spc[t] \in {"evict", "insert"})
    /\ \A s \in Searchers : sresult[s] # "undefined"

\* C36: when a shard must be loaded while the cache already holds 30 shards,
\* exactly the 15 shards that were loaded earliest are evicted in a single
\* sweep and the 15 most recently loaded shards stay cached.
C36_EvictsOldestHalf ==
    [][\A s \in Searchers :
          (spc[s] = "evict" /\ spc'[s] = "insert" /\ Len(loadOrder) = CacheLimit) =>
              loadOrder' = SubSeq(loadOrder, EvictCount + 1, CacheLimit)]_vars

(***************************************************************************)
(* Claims on the batch writer machine.                                     *)
(***************************************************************************)
\* C24: flushing an empty batch queue is a no-op: a flush_now that finds the
\* pending queue empty returns without a flush_batch, writes no file, and
\* leaves the queue and the indexed and flushed counters as they were.
C24_EmptyFlushNoOp ==
    [][\A c \in Callers :
          (fpc[c] = "queue_lock" /\ bqueue = << >> /\ fpc'[c] # fpc[c]) =>
              /\ fpc'[c] = "empty"
              /\ bqueue' = bqueue
              /\ bstats' = bstats
              /\ bhanded' = bhanded]_vars

\* a flush_now has returned on the empty queue after documents had been
\* indexed
C24_Witness ==
    /\ \E c \in Callers : fpc[c] = "empty"
    /\ bstats.documents_indexed > 0
    /\ bstats.batches_flushed > 0

\* the threads inside flush_batch on behalf of flush_now or of the writer
\* thread
Flushing ==
    { c \in Callers : fpc[c] = "flush" } \cup (IF bpc = "flush" THEN {WriterId} ELSE {})

\* C25: at most one batch flush is executing at any time: flushes started by
\* flush_now callers and by the writer thread never overlap.
C25_OneFlushAtATime == Cardinality(Flushing) <= 1

\* a flush_now caller is flushing while the writer thread holds a batch and
\* waits for flush_mutex_, and the other caller has called flush_now too
C25_Witness ==
    /\ bpc = "flush_lock"
    /\ \E c \in Callers : fpc[c] = "flush"
    /\ bmutex \in Callers

\* C28: the writer thread removes documents from the pending queue only
\* when the queue holds at least batch_size documents or the flush interval
\* has elapsed since the last successful flush, and the batch it removes is
\* the oldest min(queue length, batch_size) documents in enqueue order.
C28_WriterTakesOldestWhenDue ==
    [][(bbatch' # bbatch /\ bbatch' # << >>) =>
          LET take == Min(Len(bqueue), BatchSize)
          IN /\ Len(bqueue) >= BatchSize \/ bdue
             /\ bbatch' = SubSeq(bqueue, 1, take)
             /\ bqueue' = SubSeq(bqueue, take + 1, Len(bqueue))
             /\ \A i \in 1..(take - 1) : bbatch'[i] < bbatch'[i + 1]]_vars

\* the writer thread holds a batch shorter than batch_size, taken when the
\* interval had elapsed, and documents enqueued later wait in the queue
C28_Witness ==
    /\ bbatch # << >>
    /\ Len(bbatch) < BatchSize
    /\ bqueue # << >>
    /\ bpc = "flush_lock"

\* C29: under fair scheduling every enqueued document is eventually handed
\* to a flush, also when flush_now is never called: by the writer thread
\* once the interval has elapsed or the queue has reached batch_size, or by
\* the destructor.
C29_EveryDocumentFlushed ==
    \A d \in 1..MaxEnqueued : (benq >= d) ~> (d \in bhanded)

\* every document has been handed to a flush while flush_now was never
\* called and the batch writer is still alive
C29_Witness ==
    /\ \A c \in Callers : fpc[c] = "idle"
    /\ bdtor = "alive"
    /\ benq = MaxEnqueued
    /\ bhanded = 1..MaxEnqueued

\* C30: when the batch writer is shut down, a flush in progress runs to
\* completion and every document still in the pending queue is passed to a
\* flush before the destructor returns.
C30_ShutdownFlushesAll ==
    bdtor \in {"done", "drained"} =>
        /\ bpc = "exit"
        /\ bbatch = << >>
        /\ \A d \in 1..benq : d \in bhanded

\* the destructor has flushed the rest of the queue after the writer thread
\* had flushed a batch, and flush_now was never called
C30_Witness ==
    /\ bdtor = "drained"
    /\ \A c \in Callers : fpc[c] = "idle"
    /\ benq = MaxEnqueued
    /\ bstats.updates >= 2

\* the number of times document d stands in the sequence seq
RECURSIVE Occurrences(_, _)
Occurrences(seq, d) ==
    IF seq = << >> THEN 0
    ELSE (IF Head(seq) = d THEN 1 ELSE 0) + Occurrences(Tail(seq), d)

\* the number of times document d stands in the local batches of the
\* flush_now calls of the request threads cs
RECURSIVE InCallerBatches(_, _)
InCallerBatches(cs, d) ==
    IF cs = {} THEN 0
    ELSE LET c == CHOOSE x \in cs : TRUE
         IN Occurrences(fbatch[c], d) + InCallerBatches(cs \ {c}, d)

\* C38: every document enqueued in the batch writer is removed from the
\* pending queue into exactly one batch (taken by the writer thread, by
\* flush_now or by the destructor): at every moment an enqueued document is
\* in exactly one of the queue, one thread's batch, and the documents handed
\* to flush_batch, so none is handed to flush_batch twice and none leaves
\* the queue without being handed to it.
C38_EachDocumentInOneBatch ==
    /\ \A d \in 1..benq :
          Occurrences(bqueue, d) + Occurrences(bbatch, d) + InCallerBatches(Callers, d)
            + (IF d \in bhanded THEN 1 ELSE 0) = 1
    /\ bdtor \in {"drained", "done"} => bhanded = 1..benq

\* three documents at the same time: the first taken by the writer thread,
\* which waits for flush_mutex_, the second taken by a flush_now call, which
\* holds the mutex, the third still in the queue
C38_Witness ==
    /\ bpc = "flush_lock"
    /\ bbatch = << 1 >>
    /\ \E c \in Callers : fpc[c] = "flush" /\ fbatch[c] = << 2 >>
    /\ bqueue = << 3 >>

(***************************************************************************)
(* Claims on the startup machine.                                          *)
(***************************************************************************)
\* C35: if the delta file cannot be parsed completely on load or reload, the
\* in-memory delta is empty afterwards (no partially loaded posting list
\* remains) and the engine does not crash: an engine that has come up on a
\* delta file that is not JSON, or whose entries are not of the expected
\* types, holds no delta entry.
C35_BadDeltaLoadsNothing ==
    (engine = "running" /\ sfDelta \in {"garbled", "mistyped"}) => ~deltaLoaded

\* C18: with any of the persisted files missing or corrupt the engine
\* starts, and every search and autocomplete call after that returns a
\* result, empty or partial, and does not end with an exception.
C18_StartsAndServes ==
    /\ engine # "terminated"
    /\ callOutcome # "exception"

(***************************************************************************)
(* Claims on the locking machine (SpecLocks).                              *)
(***************************************************************************)
\* the place of a mutex of the batch writer in the order flush_mutex_,
\* queue_mutex_, stats_mutex_
LockRank(m) ==
    CASE m = "flush_mutex_" -> 1
      [] m = "queue_mutex_" -> 2
      [] m = "stats_mutex_" -> 3

\* the mutex the next lock_guard or unique_lock of thread t takes, "none"
\* when its next step takes no mutex
Wanted(t) ==
    CASE lockPc[t] \in {"pool_q", "pool_wait"} -> "pool.queue_mutex_"
      [] lockPc[t] \in {"submit_s", "pool_s", "done_s"} -> "pool.stats_mutex_"
      [] lockPc[t] \in {"wt_f"} -> "flush_mutex_"
      [] lockPc[t] \in {"flush_q", "enq_q", "wt_q", "wt_wait"} -> "queue_mutex_"
      [] lockPc[t] \in {"stats_b", "flush_s", "flush_batch", "enq_s", "wt_s", "wt_batch"}
            -> "stats_mutex_"
      [] OTHER -> "none"

\* the steps of one thread
ThreadStep(t) ==
    IF t \in Handlers THEN LkSubmitPdf(t) \/ LkGetStats(t) \/ LkFlushNow(t)
    ELSE IF t \in Workers THEN LkWorkerThread(t) \/ LkEnqueueDocument(t)
    ELSE LkWriterThread

\* the thread t waits for: the owner of the mutex it wants, NoOwner when it
\* wants none or the mutex is free
WaitsOn(t) == IF Wanted(t) = "none" THEN NoOwner ELSE lockOwner[Wanted(t)]

\* following the owners from t for k steps never comes to a thread that can
\* run: with k the number of threads, t waits in or behind a cycle
RECURSIVE WaitsForever(_, _)
WaitsForever(t, k) ==
    IF WaitsOn(t) = NoOwner THEN FALSE
    ELSE IF k = 0 THEN TRUE
    ELSE WaitsForever(WaitsOn(t), k - 1)

\* a thread that wants nothing, or a mutex that is free, can take a step:
\* threads block on mutexes only, and Wanted names the right one
BlockedOnlyOnWanted ==
    \A t \in LockThreads :
        (lockPc[t] # "idle" /\ WaitsOn(t) = NoOwner) => ENABLED ThreadStep(t)

\* a pool worker inside enqueue_document does not hold the pool's queue mutex
WorkerCallsUnlocked ==
    \A w \in Workers :
        lockPc[w] \in {"enq_q", "enq_s", "enq_u"} => lockOwner["pool.queue_mutex_"] # w

\* a step in which thread t takes mutex m
Takes(t, m) == lockOwner'[m] = t /\ lockOwner[m] # t

\* a thread takes the mutex it wanted, and a mutex of the batch writer only
\* while every mutex of the batch writer it holds comes earlier in the order
TakesInOrder ==
    \A t \in LockThreads : \A m \in DOMAIN lockOwner :
        Takes(t, m) =>
            /\ m = Wanted(t) \/ lockPc[t] = "idle"
            /\ m \in BwMutexes =>
                  \A held \in BwMutexes :
                      lockOwner[held] = t => LockRank(held) < LockRank(m)

\* C39: no interleaving of submit_pdf, the pool workers, enqueue_document,
\* flush_now, get_stats and the writer thread deadlocks: no thread ever waits
\* in a cycle of threads that wait for each other's mutexes, a thread takes
\* the batch writer's mutexes in the order flush_mutex_, queue_mutex_,
\* stats_mutex_, and a pool worker does not hold the pool's queue mutex while
\* it is inside enqueue_document
C39_NoDeadlockLockOrder ==
    /\ [](/\ \A t \in LockThreads : ~WaitsForever(t, Cardinality(LockThreads))
          /\ BlockedOnlyOnWanted
          /\ WorkerCallsUnlocked)
    /\ [][TakesInOrder]_vars

\* a flush_now that holds flush_mutex_ and queue_mutex_ waits for the
\* stats_mutex_ that a get_stats holds, while a pool worker inside
\* enqueue_document and the writer thread wait for queue_mutex_
C39_Witness ==
    /\ lockPc # << >>
    /\ \E h \in Handlers :
          /\ lockPc[h] = "flush_s"
          /\ lockOwner["flush_mutex_"] = h
          /\ lockOwner["queue_mutex_"] = h
          /\ lockOwner["stats_mutex_"] \in Handlers \ {h}
    /\ \E w \in Workers : lockPc[w] = "enq_q"
    /\ lockPc[LockWriterId] \in {"wt_q", "wt_wait"}

====
